---- MODULE Spec2Model ----
(***************************************************************************)
(* Motionalyx render endpoint, diagnostic build (server.js with the single *)
(* render lock and the ffmpeg progress runner).                            *)
(*                                                                         *)
(* The model follows Node's run-to-completion scheduling: one action is    *)
(* one event-loop callback together with every promise continuation that   *)
(* it makes runnable, up to the next await on real I/O, a subprocess event *)
(* or a timer.  The POST /render handler of each request is cut at its     *)
(* awaits: downloadToCache (twice), ffprobe, the subtitle file write, the  *)
(* encoder run, and the two unlinks of the finally block.                  *)
(*                                                                         *)
(* Two parts of the other builds of the server are modelled beside it, each *)
(* under a specification of its own: the write-then-rename asset cache     *)
(* (getOrDownload, downloadToFile) with concurrent callers, and the        *)
(* subtitle pipeline (normalize, clamp, fit, clamp, pin) as a function of  *)
(* the payload's lines and the audio duration.  The data path of one job  *)
(* of the build with the render lock (stored extension, durations, filter  *)
(* graph, encoder arguments, visibility gates, response) has its own       *)
(* specification as well.                                                  *)
(***************************************************************************)
EXTENDS Integers, Sequences, FiniteSets, TLC

\* ------------------------------------------------------------------ bounds
\* Number of concurrent POST /render requests.
NumReqs == 2
\* Number of stderr lines an encoder run delivers before it closes.
MaxLines == 2
\* Granularity of the model clock, in milliseconds.
TickMs == 300000
\* Number of progress blocks a long encoder run prints before it closes.
MaxBlocks == 62
\* Time between two progress blocks, in milliseconds.
BlockGapMs == 1000
\* Number of chunks in which the body of a downloaded asset arrives.
NumChunks == 2
\* Largest number of entries of payload.subtitles.lines.
MaxRawLines == 2
\* Largest number of characters of payload.text.title.
MaxTextLen == 3

\* ------------------------------------------------- constants of the program
FFMPEG_TIMEOUT_MS == 285000
HARD_TIMEOUT_MS == 295000
\* samples.length > 60 -> shift ; samples.slice(-20)
SamplesCap == 60
RecentCount == 20

Reqs == 1..NumReqs

VARIABLES
  renderBusy,   \* let renderBusy
  pc,           \* where each request's handler is suspended
  input,        \* what the request carried: audio file field and payload field
  resp,         \* the HTTP response sent for the request (status 0: none yet)
  files,        \* the request's files on disk: upload ("audio"), subtitle file ("ass"),
                \* output video ("out")
  resolves,     \* downloadToCache calls made on behalf of the request
  fetches,      \* network fetches issued by those calls
  cache,        \* the files in CACHE_DIR
  probe,        \* the request's ffprobe child process
  child,        \* the request's ffmpeg child process
  kills,        \* SIGKILLs sent to the ffmpeg child
  elapsed,      \* Date.now() - started of the encoder run, in ms
  killed,       \* let killed of the encoder run
  softTimer,    \* state of softTimer
  hardTimer,    \* state of hardTimer
  hb,           \* state of the heartbeat interval
  last,         \* const last of the encoder run
  samples,      \* const samples of the encoder run
  nlines,       \* stderr lines delivered so far
  errLines,     \* stderr lines that were not key=value (logged only)
  outcome,      \* how the promise of runFfmpegWithProgress settled
  \* The write-then-rename cache of the build without the render lock
  \* (getOrDownload, downloadToFile):
  getCall,      \* each getOrDownload call: its stage, url, write stream, error
  partFile,     \* the inode at '<sha1><ext>.part' of each url (0: no such file)
  cachedFile,   \* the inode at the cache path '<sha1><ext>' of each url (0: none)
  inodeData,    \* the chunks that each inode holds
  \* The subtitle pipeline of the builds that fit the lines to the audio
  \* (normalize, clamp, fit, clamp, pin):
  rawLines,     \* payload.subtitles.lines
  subsTargetMs, \* const subsTargetMs = audioMs
  fitLines,     \* let lines
  fitStage,     \* the statement of the pipeline that has run last
  \* The data of one job of the build with the render lock, from the stored
  \* background to the response:
  jobIn,        \* what the job is given: response header and URL extension of the
                \* background, probed duration, payload.debug and payload.text
  jobStage,     \* the statement of the handler that has run last
  storedExt,    \* let ext of downloadToCache
  audioSec,     \* const audioSec (a double, held in millionths)
  videoSec,     \* const videoSec (a double, held in millionths)
  videoMs,      \* const videoMs
  filterComplex, \* const filterComplex
  ffmpegArgs,   \* const ffmpegArgs
  shown,        \* the frame ffmpeg has composed last: its time and what is enabled
  debug         \* the debug object of the success response

vars == << renderBusy, pc, input, resp, files, resolves, fetches, cache, probe, child,
           kills, elapsed, killed, softTimer, hardTimer, hb, last, samples, nlines,
           errLines, outcome, getCall, partFile, cachedFile, inodeData, rawLines,
           subsTargetMs, fitLines, fitStage, jobIn, jobStage, storedExt, audioSec,
           videoSec, videoMs, filterComplex, ffmpegArgs, shown, debug >>

\* ------------------------------------------------------------------ inputs
\* A JSON document as validatePayload sees it.  kind is what typeof and the
\* truthiness test make of the value; the other fields are the members that
\* validatePayload reads.
Json(kind, spec, bg, end, lines, dis) ==
  [kind |-> kind, spec |-> spec, bg |-> bg, end |-> end, lines |-> lines, dis |-> dis]

\* The asset urls that requests name.  The background is served as image/gif
\* from a path that ends in .gif; the end card is served as image/png from a
\* path without extension.
BgUrl == "https://cdn.example/bg.gif"
EndUrl == "https://cdn.example/end"

ValidJson(dis) == Json("object", "ok", BgUrl, EndUrl, "nonempty", dis)

JsonValues ==
  { Json("null", "absent", "absent", "absent", "absent", FALSE),
    Json("number", "absent", "absent", "absent", "absent", FALSE),
    Json("array", "absent", "absent", "absent", "absent", FALSE),
    Json("object", "nan", "url", "url", "nonempty", FALSE),
    Json("object", "ok", "absent", "url", "nonempty", FALSE),
    Json("object", "ok", "url", "absent", "nonempty", FALSE),
    Json("object", "ok", "url", "url", "absent", FALSE),
    Json("object", "ok", "url", "url", "notarray", FALSE),
    Json("object", "ok", "url", "url", "empty", FALSE),
    ValidJson(FALSE) }

NoJson == Json("none", "absent", "absent", "absent", "absent", FALSE)

\* The payload text field: absent, the empty string, text that is not JSON,
\* or the text of a JSON document.
PayloadStrings ==
  { [t |-> "missing", v |-> NoJson], [t |-> "empty", v |-> NoJson],
    [t |-> "badjson", v |-> NoJson] }
  \cup { [t |-> "json", v |-> v] : v \in JsonValues }

\* A request: whether the multipart body had the audio file field, and its payload field.
Inputs ==
  { [audio |-> TRUE, payload |-> p] : p \in PayloadStrings }
  \cup { [audio |-> FALSE, payload |-> [t |-> "json", v |-> ValidJson(FALSE)]] }

NoInput == [audio |-> FALSE, payload |-> [t |-> "none", v |-> NoJson]]

\* safeJsonParse: ok exactly when JSON.parse does not throw.
safeJsonParse(str) == [ok |-> str.t = "json", value |-> str.v]

\* validatePayload: the message of the error it throws, "" when it returns.
validatePayload(v) ==
  IF v.kind \in {"null", "number"} THEN "payload must be an object"
  ELSE IF v.spec = "nan" THEN "Invalid spec (width/height/fps)"
  ELSE IF v.bg = "absent" THEN "Missing assets.base_background_url"
  ELSE IF v.end = "absent" THEN "Missing assets.end_card_url"
  ELSE IF v.lines # "nonempty" THEN "Missing subtitles.lines"
  ELSE ""

\* ------------------------------------------------- progress record, samples
\* const last = { out_time_ms: 0, out_time: "", speed: "", fps: "", frame: "", progress: "" }
\* Numbers are written as their canonical decimal text.
InitLast ==
  [out_time_ms |-> "0", out_time |-> "", speed |-> "", fps |-> "", frame |-> "",
   progress |-> ""]

\* One trimmed, non-empty stderr line: kv is (line.indexOf("=") > 0), key and val
\* are the trimmed text before and after the first "=".
StderrLines ==
  { [kv |-> TRUE, key |-> "out_time_ms", val |-> "1000000"],
    [kv |-> TRUE, key |-> "progress", val |-> "continue"],
    [kv |-> TRUE, key |-> "bitrate", val |-> "N/A"],
    [kv |-> FALSE, key |-> "", val |-> "Error while decoding stream"] }

\* Number(val) and Number.isFinite over the texts that occur.
IsFiniteNumber(val) == val \in {"", "1000000", "2000000"}
NumberOf(val) == IF val = "" THEN "0" ELSE val

\* if (key in last) { last[key] = val; if (key === "out_time_ms") ... }
\* if (key === "progress") last.progress = val
UpdateLast(l, line) ==
  IF line.kv /\ line.key \in DOMAIN l
  THEN IF line.key = "out_time_ms" /\ IsFiniteNumber(line.val)
       THEN [l EXCEPT !.out_time_ms = NumberOf(line.val)]
       ELSE [l EXCEPT ![line.key] = line.val]
  ELSE l

Sample(t, l, val) ==
  [t_ms |-> t, out_time_ms |-> l.out_time_ms, speed |-> l.speed, fps |-> l.fps,
   frame |-> l.frame, progress |-> val]

\* samples.push(...); if (samples.length > 60) samples.shift()
\* The mutant never shifts.
PushSample_NoShift(s, smp) == Append(s, smp)

PushSample(s, smp) ==
  LET a == Append(s, smp) IN IF Len(a) > SamplesCap THEN Tail(a) ELSE a

\* samples.slice(-20)
Recent(s) ==
  IF Len(s) <= RecentCount THEN s ELSE SubSeq(s, Len(s) - RecentCount + 1, Len(s))

\* The mutant stores a sample for every key=value line.
UpdateSamples_EveryKey(s, t, l, line) ==
  IF line.kv
  THEN PushSample(s, Sample(t, UpdateLast(l, line), line.val))
  ELSE s

UpdateSamples(s, t, l, line) ==
  IF line.kv /\ line.key = "progress"
  THEN PushSample(s, Sample(t, UpdateLast(l, line), line.val))
  ELSE s

\* ------------------------------------------------------ errors, responses
\* A JavaScript value that may be undefined: <<>> is undefined, <<x>> is x.
Undefined == << >>
Def(x) == << x >>

\* An Error object: message, code ("undefined" when it has none) and the two
\* members the encoder runner attaches.
Err(message, code) ==
  [message |-> message, code |-> code, ffmpeg_last |-> Undefined,
   ffmpeg_samples |-> Undefined]

\* The error of the soft timer: code ETIMEDOUT with { ...last } and samples.slice(-20).
SoftTimeoutError_NoSnapshot(l, s) == Err("ffmpeg timeout", "ETIMEDOUT")
SoftTimeoutError(l, s) ==
  [message |-> "ffmpeg timeout", code |-> "ETIMEDOUT", ffmpeg_last |-> Def(l),
   ffmpeg_samples |-> Def(Recent(s))]

\* The error of the hard timer: code HARD_TIMEOUT.
HardTimeoutError(l, s) ==
  [message |-> "ffmpeg HARD timeout", code |-> "HARD_TIMEOUT", ffmpeg_last |-> Def(l),
   ffmpeg_samples |-> Def(Recent(s))]

\* The error of the close handler for a non-zero exit code.
ExitError(code, l, s) ==
  [message |-> "ffmpeg exited with code", code |-> code, ffmpeg_last |-> Def(l),
   ffmpeg_samples |-> Def(Recent(s))]

\* A response: status 0 means that none was sent.  JSON.stringify drops members
\* whose value is undefined, so an Undefined member is absent from the body.
Response(status, ok, error, code, fl, fs, dis) ==
  [status |-> status, ok |-> ok, error |-> error, code |-> code, ffmpeg_last |-> fl,
   ffmpeg_samples |-> fs, disable_subtitles |-> dis]

NoResp == Response(0, FALSE, "", "undefined", Undefined, Undefined, FALSE)

BusyResponse == Response(503, FALSE, "Renderer busy. Try again.", "undefined",
                         Undefined, Undefined, FALSE)

BadRequest(error) == Response(400, FALSE, error, "undefined", Undefined, Undefined, FALSE)

\* The members of the response's debug object that have a value.
DebugKeys(rsp) ==
  (IF rsp.code # "undefined" THEN {"code"} ELSE {})
  \cup (IF rsp.ffmpeg_last # Undefined THEN {"ffmpeg_last"} ELSE {})
  \cup (IF rsp.ffmpeg_samples # Undefined THEN {"ffmpeg_samples"} ELSE {})
  \cup (IF rsp.status = 200
        THEN {"audio_ms", "video_ms", "elapsed_ms", "disable_subtitles"} ELSE {})

\* The catch block of the handler; the mutant answers 200 to an exit error.
CatchResponse_OkOnExit(err) ==
  IF err.code \in {"ETIMEDOUT", "HARD_TIMEOUT"}
  THEN Response(504, FALSE, "Render timeout", "undefined", err.ffmpeg_last,
                err.ffmpeg_samples, FALSE)
  ELSE Response(IF err.code = "1" THEN 200 ELSE 500, err.code = "1",
                IF err.message = "" THEN "Unknown error" ELSE err.message,
                err.code, err.ffmpeg_last, err.ffmpeg_samples, FALSE)

CatchResponse(err) ==
  IF err.code \in {"ETIMEDOUT", "HARD_TIMEOUT"}
  THEN Response(504, FALSE, "Render timeout", "undefined", err.ffmpeg_last,
                err.ffmpeg_samples, FALSE)
  ELSE Response(500, FALSE, IF err.message = "" THEN "Unknown error" ELSE err.message,
                err.code, err.ffmpeg_last, err.ffmpeg_samples, FALSE)

\* The success response of the handler.
SuccessResponse(val, dis) ==
  Response(200, TRUE, "", "undefined", val.ffmpeg_last, val.ffmpeg_samples, dis)

\* The promise of runFfmpegWithProgress: not created, pending, resolved or rejected.
\* A settled promise keeps the value or error of its first resolve/reject.
NoOutcome == [state |-> "none", elapsed_ms |-> Undefined] @@ Err("", "undefined")
Pending == [state |-> "pending", elapsed_ms |-> Undefined] @@ Err("", "undefined")
Resolved(l, s, t) ==
  [state |-> "resolved", message |-> "", code |-> "undefined", ffmpeg_last |-> Def(l),
   ffmpeg_samples |-> Def(Recent(s)), elapsed_ms |-> Def(t)]
Rejected(err) == [state |-> "rejected", elapsed_ms |-> Undefined] @@ err

\* ------------------------------------------------------------ asset cache
\* sha1(url): the cache key; distinct urls have distinct keys.
sha1(str) == << "sha1", str >>

\* A content type is the sequence of its characters.
Header ==
  [png |-> << "i", "m", "a", "g", "e", "/", "p", "n", "g" >>,
   gif |-> << "i", "m", "a", "g", "e", "/", "g", "i", "f" >>,
   pngUpper |-> << "I", "M", "A", "G", "E", "/", "P", "N", "G" >>,
   pngCharset |-> << "i", "m", "a", "g", "e", "/", "p", "n", "g", ";", "c", "h", "a", "r",
                     "s", "e", "t", "=", "b", "i", "n", "a", "r", "y" >>,
   jpeg |-> << "i", "m", "a", "g", "e", "/", "j", "p", "e", "g" >>,
   jpg |-> << "i", "m", "a", "g", "e", "/", "j", "p", "g" >>,
   webp |-> << "i", "m", "a", "g", "e", "/", "w", "e", "b", "p" >>,
   html |-> << "t", "e", "x", "t", "/", "h", "t", "m", "l" >>,
   octetStream |-> << "a", "p", "p", "l", "i", "c", "a", "t", "i", "o", "n", "/", "o", "c",
                      "t", "e", "t", "-", "s", "t", "r", "e", "a", "m" >>]

\* (res.headers.get("content-type") || "").toLowerCase() of the urls' servers.
ContentType(url) == IF url = EndUrl THEN Header.png ELSE Header.gif

\* path.extname(new URL(url).pathname).toLowerCase()
UrlExt(url) == IF url = BgUrl THEN ".gif" ELSE ""

\* contentType.includes(word): word occurs in contentType as a substring.
Includes(contentType, word) ==
  \E i \in 1..(Len(contentType) - Len(word) + 1) :
    SubSeq(contentType, i, i + Len(word) - 1) = word

\* The extension under which downloadToCache stores a response; the mutant
\* looks at the URL path first.
ExtOf_UrlFirst(contentType, uext) ==
  IF uext # "" THEN uext
  ELSE IF Includes(contentType, << "p", "n", "g" >>) THEN ".png"
  ELSE IF Includes(contentType, << "j", "p", "e", "g" >>)
          \/ Includes(contentType, << "j", "p", "g" >>) THEN ".jpg"
  ELSE IF Includes(contentType, << "w", "e", "b", "p" >>) THEN ".webp"
  ELSE ".bin"

ExtOf(contentType, uext) ==
  IF Includes(contentType, << "p", "n", "g" >>) THEN ".png"
  ELSE IF Includes(contentType, << "j", "p", "e", "g" >>)
          \/ Includes(contentType, << "j", "p", "g" >>) THEN ".jpg"
  ELSE IF Includes(contentType, << "w", "e", "b", "p" >>) THEN ".webp"
  ELSE IF uext # "" THEN uext ELSE ".bin"

\* A file of CACHE_DIR: `${base}${ext}`.
CachePath(base, ext) == [base |-> base, ext |-> ext]

\* const outPath = `${base}${ext}` of a fetched url.
StoredPath(url) == CachePath(sha1(url), ExtOf(ContentType(url), UrlExt(url)))

\* findExistingCached: the first of base.png, .jpg, .jpeg, .webp, .bin and
\* base itself that exists, null (Undefined) when none does.
CacheExts == << ".png", ".jpg", ".jpeg", ".webp", ".bin", "" >>

findExistingCached(dir, filePathBase) ==
  LET found == { i \in DOMAIN CacheExts : CachePath(filePathBase, CacheExts[i]) \in dir }
  IN IF found = {} THEN Undefined
     ELSE Def(CachePath(filePathBase,
                        CacheExts[CHOOSE i \in found : \A j \in found : i <= j]))

\* ------------------------------------- write-then-rename cache (getOrDownload)
\* The urls that getOrDownload is called with.
GetUrls == { "https://cdn.example/a.png", "https://cdn.example/b.png" }

\* The chunks of a response body, in the order in which res.pipe(file) writes them.
Chunks == 1..NumChunks

\* fs.statSync(path).size, in chunks: the end of the last chunk written.
SizeOf(data) == IF data = {} THEN 0 ELSE CHOOSE n \in data : \A m \in data : m <= n

\* A getOrDownload call: stage is "idle" (not made), "requesting" (client.get
\* sent), "writing" (the write stream on the .part file is open, pos chunks
\* written through file descriptor fd), "returned" or "failed".
GetCall(stage, url, fd, pos, error, status) ==
  [stage |-> stage, url |-> url, fd |-> fd, pos |-> pos, error |-> error, status |-> status]

NoCall == GetCall("idle", "", 0, 0, "", 0)

\* What downloadToFile rejects with: a status other than 200, the request
\* timeout, an error of the request or the response.
NotOkError == "Failed to download asset: 404"
DownloadTimeoutError == "Download timed out after 20000ms"
NetworkError == "socket hang up"
DownloadToFileErrors == { NotOkError, DownloadTimeoutError, NetworkError }

\* What fs.renameSync throws when the .part file is not there.
RenameError == "ENOENT: no such file or directory, rename"

\* msg.toLowerCase().includes("timed out"), over the messages that occur.
IsTimeoutMessage(msg) == msg = DownloadTimeoutError

\* The catch block of the handler that calls getOrDownload.
GetCatchStatus(msg) == IF IsTimeoutMessage(msg) THEN 504 ELSE 500

\* ------------------------------------------------------ subtitle pipeline
\* DEFAULT_STYLE.subs.min_dur, max_dur
min_dur == 550
max_dur == 1700

\* if (!audioMs) audioMs = 10000
FallbackAudioMs == 10000

MathMax(a, b) == IF a >= b THEN a ELSE b
MathMin(a, b) == IF a <= b THEN a ELSE b
MathAbs(a) == IF a >= 0 THEN a ELSE 0 - a

\* const clamp = (n, min, max) => Math.max(min, Math.min(max, n))
clamp(n, min, max) == MathMax(min, MathMin(max, n))

\* An entry of payload.subtitles.lines.  A time is Undefined when its value is
\* not of type number, else it is given in half milliseconds, so that odd
\* values are the fractional ones; text "" is the falsy text.
RawLine(start, end, text) == [start_ms |-> start, end_ms |-> end, text |-> text]

RawStarts == { Def(0), Def(2401), Undefined }
RawEnds == { Def(0 - 200), Def(1200), Def(10000) }
RawTexts == { "a", "b", "" }
RawLineSet == { RawLine(st, en, tx) : st \in RawStarts, en \in RawEnds, tx \in RawTexts }

\* The arrays that payload.subtitles.lines can be.
RawInputs == UNION { [1..n -> RawLineSet] : n \in 0..MaxRawLines }

\* The audio durations that getAudioDurationMs reports (after the fallback).
TargetSet == { 1, 1300, 1500, 1840, 3000, FallbackAudioMs }

\* Math.floor of a value given in half milliseconds.
MathFloor(halves) == halves \div 2

\* A subtitle line in milliseconds.
SubLine(start, end, text) == [start_ms |-> start, end_ms |-> end, text |-> text]

\* typeof l?.start_ms === "number" && typeof l?.end_ms === "number" && l?.text
IsValidLine(l) == l.start_ms # Undefined /\ l.end_ms # Undefined /\ l.text # ""

\* .sort((a, b) => a.start_ms - b.start_ms): stable, ascending.
RECURSIVE InsertByStart(_, _)
InsertByStart(sorted, l) ==
  IF sorted = << >> THEN << l >>
  ELSE IF sorted[Len(sorted)].start_ms <= l.start_ms THEN Append(sorted, l)
  ELSE Append(InsertByStart(SubSeq(sorted, 1, Len(sorted) - 1), l), sorted[Len(sorted)])

RECURSIVE SortByStart(_)
SortByStart(seq) ==
  IF seq = << >> THEN << >>
  ELSE InsertByStart(SortByStart(SubSeq(seq, 1, Len(seq) - 1)), seq[Len(seq)])

\* The filter, map and sort of normalizeSubtitleLines; the mutant does not sort.
Cleaned_Unsorted(raw) ==
  LET kept == SelectSeq(raw, IsValidLine)
  IN [i \in 1..Len(kept) |->
        SubLine(MathMax(0, MathFloor(kept[i].start_ms[1])),
                MathMax(0, MathFloor(kept[i].end_ms[1])), kept[i].text)]

Cleaned(raw) ==
  LET kept == SelectSeq(raw, IsValidLine)
  IN SortByStart([i \in 1..Len(kept) |->
                    SubLine(MathMax(0, MathFloor(kept[i].start_ms[1])),
                            MathMax(0, MathFloor(kept[i].end_ms[1])), kept[i].text)])

\* The loop of normalizeSubtitleLines: no overlap, at least 150 ms per line.
RECURSIVE NoOverlap(_, _)
NoOverlap(cleaned, prevEnd) ==
  IF cleaned = << >> THEN << >>
  ELSE LET l == Head(cleaned)
           start == MathMax(l.start_ms, prevEnd)
           end == MathMax(l.end_ms, start + 150)
       IN << SubLine(start, end, l.text) >> \o NoOverlap(Tail(cleaned), end)

\* The mutant returns the cleaned lines as they are.
normalizeSubtitleLines_Unrepaired(raw) == Cleaned(raw)

normalizeSubtitleLines(raw) == NoOverlap(Cleaned(raw), 0)

\* The loop of enforceConsecutiveWithClamp; the mutant keeps each line's own start.
RECURSIVE Consecutive(_, _, _, _)
Consecutive(ls, cursor, minDur, maxDur) ==
  IF ls = << >> THEN << >>
  ELSE LET l == Head(ls)
           origDur == MathMax(1, l.end_ms - l.start_ms)
           dur == clamp(origDur, minDur, maxDur)
           end == cursor + dur
       IN << SubLine(cursor, end, l.text) >> \o Consecutive(Tail(ls), end, minDur, maxDur)

enforceConsecutiveWithClamp_KeepStart(ls, minDur, maxDur) ==
  [i \in 1..Len(ls) |->
     SubLine(ls[i].start_ms,
             ls[i].start_ms + clamp(MathMax(1, ls[i].end_ms - ls[i].start_ms), minDur, maxDur),
             ls[i].text)]

enforceConsecutiveWithClamp(ls, minDur, maxDur) == Consecutive(ls, 0, minDur, maxDur)

\* floor(log2(n / d)) for n > 0, d > 0: the binary exponent of the double n / d.
RECURSIVE BinaryExponent(_, _)
BinaryExponent(n, d) ==
  IF n >= 2 * d THEN 1 + BinaryExponent(n, 2 * d)
  ELSE IF n < d THEN BinaryExponent(2 * n, d) - 1
  ELSE 0

\* 2^n modulo l, by repeated squaring.
RECURSIVE PowMod2(_, _)
PowMod2(n, l) ==
  IF n = 0 THEN 1 % l
  ELSE LET h == PowMod2(n \div 2, l)
       IN (h * h * (IF n % 2 = 1 THEN 2 ELSE 1)) % l

\* const scale = targetMs / lastEnd, an IEEE 754 double: its 53-bit significand
\* M is targetMs * 2^s / lastEnd rounded to the nearest integer, with
\* s = 52 - BinaryExponent (no tie arises: a quotient with a finite binary
\* expansion has one of fewer than 53 bits and is exact).  The value is
\* targetMs * 2^s - M * lastEnd: positive when the double lies below the exact
\* quotient, 0 when the quotient is exact.
ScaleError(targetMs, lastEnd) ==
  LET rem == ((targetMs % lastEnd) * PowMod2(52 - BinaryExponent(targetMs, lastEnd), lastEnd))
               % lastEnd
  IN IF 2 * rem > lastEnd THEN rem - lastEnd ELSE rem

\* Math.floor(x * scale) with scale = targetMs / lastEnd, in double arithmetic,
\* for 0 <= x and 0 < targetMs, lastEnd below 2^20.  When lastEnd does not
\* divide x * targetMs the exact product is at least 1 / lastEnd away from an
\* integer, further than the two roundings move it, and the floor is the exact
\* one.  When it does, the exact quotient is an integer q and x * scale is
\* q - x * r / (lastEnd * 2^s) with r = ScaleError: for r <= 0 the product
\* rounds to q or above; for r > 0 it rounds to q when it is no further below
\* q than half the spacing 2^(e - 52) of the doubles below q (q has an even
\* significand, a tie goes to q), and to a double below q otherwise.
FloorScaled_Round(x, targetMs, lastEnd) == (2 * x * targetMs + lastEnd) \div (2 * lastEnd)

FloorScaled(x, targetMs, lastEnd) ==
  LET q == (x * targetMs) \div lastEnd
  IN IF x = 0 \/ (x * targetMs) % lastEnd # 0 THEN q
     ELSE LET a == BinaryExponent(targetMs, lastEnd)
              r == ScaleError(targetMs, lastEnd)
              e == IF q = 1 THEN 0 - 1 ELSE BinaryExponent(q - 1, 1)
              below == 2 * x * r * 2^MathMax(a, 0) * 2^MathMax(0 - e, 0)
              half == lastEnd * 2^MathMax(0 - a, 0) * 2^MathMax(e, 0)
          IN IF r > 0 /\ below > half THEN q - 1 ELSE q

\* lines[lines.length - 1].end_ms = targetMs; the mutant leaves the end as it is.
WithLastEnd_Unpinned(ls, targetMs) == ls

WithLastEnd(ls, targetMs) ==
  IF ls = << >> THEN ls ELSE [ls EXCEPT ![Len(ls)].end_ms = targetMs]

\* The mutant scales whatever the distance to the target.
proportionalFitToTarget_AlwaysScaled(ls, targetMs) ==
  IF ls = << >> THEN << >>
  ELSE LET lastEnd == ls[Len(ls)].end_ms
       IN IF lastEnd <= 0 THEN ls
          ELSE WithLastEnd(
                 enforceConsecutiveWithClamp(
                   [i \in 1..Len(ls) |->
                      SubLine(FloorScaled(ls[i].start_ms, targetMs, lastEnd),
                              FloorScaled(ls[i].end_ms, targetMs, lastEnd), ls[i].text)],
                   550, 1700),
                 targetMs)

proportionalFitToTarget(ls, targetMs) ==
  IF ls = << >> THEN << >>
  ELSE LET lastEnd == ls[Len(ls)].end_ms
       IN IF lastEnd <= 0 THEN ls
          ELSE IF MathAbs(targetMs - lastEnd) <= 250 THEN WithLastEnd(ls, targetMs)
          ELSE WithLastEnd(
                 enforceConsecutiveWithClamp(
                   [i \in 1..Len(ls) |->
                      SubLine(FloorScaled(ls[i].start_ms, targetMs, lastEnd),
                              FloorScaled(ls[i].end_ms, targetMs, lastEnd), ls[i].text)],
                   550, 1700),
                 targetMs)

\* scaleSubtitleLinesToAudio of the build with the render lock, on lines whose
\* times are whole, non-negative milliseconds.  RoundScaled is
\* Math.round(x * factor) with factor = audioMs / lastEnd in double arithmetic:
\* the exact rounding unless the exact product lies midway between two
\* integers, q + 1/2; then the double product is q + 1/2 less
\* x * r / (lastEnd * 2^s) with r = ScaleError, and rounds to q only when it
\* lies further below q + 1/2 than half the spacing of the doubles there.
scaleSubtitleLinesToAudio(ls, audioMs) ==
  IF ls = << >> THEN << >>
  ELSE LET lastEnd == ls[Len(ls)].end_ms
           RoundScaled(x) ==
             LET exact == (2 * x * audioMs + lastEnd) \div (2 * lastEnd)
             IN IF x = 0 \/ (2 * x * audioMs) % (2 * lastEnd) # lastEnd THEN exact
                ELSE LET q == exact - 1
                         a == BinaryExponent(audioMs, lastEnd)
                         r == ScaleError(audioMs, lastEnd)
                         e == IF q = 0 THEN 0 - 2 ELSE BinaryExponent(q, 1)
                         below == 2 * x * r * 2^MathMax(a, 0) * 2^MathMax(0 - e, 0)
                         half == lastEnd * 2^MathMax(0 - a, 0) * 2^MathMax(e, 0)
                     IN IF r > 0 /\ below > half THEN q ELSE q + 1
           out == [i \in 1..Len(ls) |->
                     SubLine(RoundScaled(ls[i].start_ms), RoundScaled(ls[i].end_ms),
                             ls[i].text)]
       IN IF lastEnd <= 0 THEN ls
          ELSE IF MathAbs(lastEnd - audioMs) <= 50
          THEN [ls EXCEPT ![Len(ls)].end_ms = audioMs]
          ELSE [i \in 1..Len(ls) |->
                  SubLine(IF i = 1 THEN 0 ELSE out[i - 1].end_ms,
                          IF i = Len(ls) THEN audioMs ELSE out[i].end_ms,
                          out[i].text)]

\* ------------------------------------------------------ the job's data path
\* String.prototype.toLowerCase on the letters that occur.
toLowerCase(str) ==
  [i \in DOMAIN str |->
     CASE str[i] = "P" -> "p" [] str[i] = "N" -> "n" [] str[i] = "G" -> "g"
       [] str[i] = "I" -> "i" [] str[i] = "M" -> "m" [] str[i] = "A" -> "a"
       [] str[i] = "E" -> "e" [] OTHER -> str[i]]

\* Math.round(x), toFixed(3): x in thousandths of the unit of the result.
MathRound_Floor(thousandths) == thousandths \div 1000

MathRound(thousandths) == (thousandths + 500) \div 1000

toFixed3(millionths) == (millionths + 500) \div 1000

\* const disableSubtitles = debug.disable_subtitles === true; the mutant
\* takes every truthy value.
disableSubtitles_Truthy(value) == value \in { "true", "\"true\"", "1" }

disableSubtitles(value) == value = "true"

\* String.prototype.trim: line feed and carriage return are white space.
RECURSIVE trim(_)
trim(str) ==
  IF str = << >> THEN str
  ELSE IF Head(str) \in {"LF", "CR"} THEN trim(Tail(str))
  ELSE IF str[Len(str)] \in {"LF", "CR"} THEN trim(SubSeq(str, 1, Len(str) - 1))
  ELSE str

\* str.replace(/c/g, rep) for a pattern of one character.
RECURSIVE ReplaceAll(_, _, _)
ReplaceAll(str, c, rep) ==
  IF str = << >> THEN << >>
  ELSE (IF Head(str) = c THEN rep ELSE << Head(str) >>) \o ReplaceAll(Tail(str), c, rep)

\* str.replace(/\r\n|\r|\n/g, "\\n")
RECURSIVE ReplaceNewlines(_)
ReplaceNewlines(str) ==
  IF str = << >> THEN << >>
  ELSE IF Len(str) >= 2 /\ str[1] = "CR" /\ str[2] = "LF"
  THEN << "\\", "n" >> \o ReplaceNewlines(SubSeq(str, 3, Len(str)))
  ELSE IF Head(str) \in {"CR", "LF"} THEN << "\\", "n" >> \o ReplaceNewlines(Tail(str))
  ELSE << Head(str) >> \o ReplaceNewlines(Tail(str))

\* escapeDrawtextText; the mutant escapes the backslashes after the other
\* characters.
escapeDrawtextText_BackslashLast(str) ==
  ReplaceNewlines(
    ReplaceAll(
      ReplaceAll(
        ReplaceAll(ReplaceAll(str, ":", << "\\", ":" >>), "'", << "\\", "'" >>),
        "%", << "\\", "%" >>),
      "\\", << "\\", "\\" >>))

escapeDrawtextText(str) ==
  ReplaceNewlines(
    ReplaceAll(
      ReplaceAll(
        ReplaceAll(ReplaceAll(str, "\\", << "\\", "\\" >>), ":", << "\\", ":" >>),
        "'", << "\\", "'" >>),
      "%", << "\\", "%" >>))

\* filters.join(";"): a filter is the sequence of its labels and its name.
RECURSIVE join(_)
join(filters) ==
  IF filters = << >> THEN << >>
  ELSE IF Len(filters) = 1 THEN filters[1]
  ELSE filters[1] \o << ";" >> \o join(Tail(filters))

\* An enable expression as ffmpeg evaluates it at frame time t (milliseconds):
\* lt(t, a) is t < a, between(t, a, b) is a <= t <= b.
Enabled(gate, t) ==
  IF gate.fn = "lt" THEN t < gate.args[1]
  ELSE gate.args[1] <= t /\ t <= gate.args[2]

\* enableAudioOnly of buildFilterComplex; the mutant uses lte.
enableAudioOnly_Lte(asec) == [fn |-> "between", args |-> << 0, toFixed3(asec) >>]

enableAudioOnly(asec) == [fn |-> "lt", args |-> << toFixed3(asec) >>]

\* buildFilterComplex: the joined graph, and the options of its filters that
\* carry a text or an enable expression.  The mutant ends the graph with a
\* separator.
buildFilterComplex_TrailingSeparator(title, footer, asec, vsec, dis) ==
  [graph |-> join(<< << "[0:v]", IF dis THEN "null" ELSE "subtitles", "[v0]" >>,
                     << "[v0]", "drawtext", "[v1]" >>,
                     << "[v1]", "drawtext", "[v2]" >>,
                     << "[v2]", "[2:v]", "overlay", "[vout]" >> >>) \o << ";" >>,
   title |-> escapeDrawtextText(title),
   footer |-> escapeDrawtextText(footer),
   enableAudioOnly |-> enableAudioOnly(asec),
   enableEndCard |-> [fn |-> "between", args |-> << toFixed3(asec), toFixed3(vsec) >>]]

buildFilterComplex(title, footer, asec, vsec, dis) ==
  [graph |-> join(<< << "[0:v]", IF dis THEN "null" ELSE "subtitles", "[v0]" >>,
                     << "[v0]", "drawtext", "[v1]" >>,
                     << "[v1]", "drawtext", "[v2]" >>,
                     << "[v2]", "[2:v]", "overlay", "[vout]" >> >>),
   title |-> escapeDrawtextText(title),
   footer |-> escapeDrawtextText(footer),
   enableAudioOnly |-> enableAudioOnly(asec),
   enableEndCard |-> [fn |-> "between", args |-> << toFixed3(asec), toFixed3(vsec) >>]]

\* const ffmpegArgs: the options that name an input, the graph, a mapping or
\* the output, in their order; the values of -t, -framerate and the encoder
\* settings are left out.
BuildArgs ==
  << "-y", "-loop", "-i", "baseBgPath", "-i", "audioPath", "-loop", "-i", "endCardPath",
     "-filter_complex", "filterComplex", "-filter:a", "apad=pad_dur=4",
     "-map", "[vout]", "-map", "1:a", "-shortest", "outPath" >>

\* A job: the background is a png served as such, the audio lasts 1.5 s.
JobDefault ==
  [contentType |-> Header.png, uext |-> ".png", audioMs |-> 1500, roundOff |-> << 0, 0, 0 >>,
   disable_subtitles |-> "false", title |-> << >>, footer |-> << >>]

\* The jobs: every response header with every URL extension; every duration
\* with every rounding and every payload.debug; every title with every footer.
\*   RespContentTypes  the content-type header of the background's response
\*                     as the server sends it, << >> when there is none;
\*   UrlExts           the extension of the background URL's path, lower
\*                     case, "" when it has none;
\*   AudioSet          what ffprobeDurationMs returns, Math.round(sec * 1000);
\*   RoundOff          a double that is not an integer is held in millionths;
\*                     a double operation yields the exact result rounded to
\*                     the nearest double, less than a millionth away: each of
\*                     the three operations (division, sum, product) yields
\*                     the exact value in millionths moved by one of these;
\*   DisValues         payload.debug.disable_subtitles as a JSON value,
\*                     "absent" when payload.debug or the member is missing;
\*   TextChars         the characters of a title or footer: backslash, colon,
\*                     single quote, percent, line feed, carriage return and
\*                     a letter.
JobInputs ==
  LET RespContentTypes ==
        { Header.png, Header.pngUpper, Header.pngCharset, Header.jpeg, Header.jpg,
          Header.webp, Header.gif, Header.html, Header.octetStream, << >> }
      UrlExts == { ".png", ".jpg", ".webp", ".gif", "" }
      AudioSet == { 1, 1500, 9000 }
      RoundOff == { 0 - 1, 0, 1 }
      DisValues == { "true", "false", "\"true\"", "1", "absent" }
      TextChars == { "\\", ":", "'", "%", "LF", "CR", "n" }
      Texts == UNION { [1..n -> TextChars] : n \in 0..MaxTextLen }
      Footers == { << >>, << "'", "n" >> }
  IN { [JobDefault EXCEPT !.contentType = c, !.uext = u] :
         c \in RespContentTypes, u \in UrlExts }
     \cup { [JobDefault EXCEPT !.audioMs = a, !.roundOff = << e[1], e[2], e[3] >>,
                               !.disable_subtitles = d] :
              a \in AudioSet, e \in RoundOff \X RoundOff \X RoundOff, d \in DisValues }
     \cup { [JobDefault EXCEPT !.title = t, !.footer = f] : t \in Texts, f \in Footers }

\* ------------------------------------------------------------ the gate
\* if (renderBusy) return res.status(503)...
GateBusy_Never(busy) == FALSE
GateBusy(busy) == busy

\* The busy rejection returns before the try block: renderBusy is left as it is.
BusyAfterReject_Cleared(busy) == FALSE
BusyAfterReject(busy) == busy

\* finally { renderBusy = false; ... }
BusyAfterFinally_SkippedOn400(status) == status = 400
BusyAfterFinally(status) == FALSE

\* Where the finally block first suspends: the unlink of the upload, else the
\* unlink of the subtitle file, else nowhere.
AfterFinally(fs) ==
  IF "audio" \in fs THEN "unlink_audio" ELSE IF "ass" \in fs THEN "unlink_ass" ELSE "done"

\* ------------------------------------------------------------------ Init
\* The build with the render lock: no request has arrived, the cache
\* directory is empty.
HandlerInit ==
  /\ renderBusy = FALSE
  /\ pc = [r \in Reqs |-> "new"]
  /\ input = [r \in Reqs |-> NoInput]
  /\ resp = [r \in Reqs |-> NoResp]
  /\ files = [r \in Reqs |-> {}]
  /\ resolves = [r \in Reqs |-> 0]
  /\ fetches = [r \in Reqs |-> 0]
  /\ cache = {}
  /\ probe = [r \in Reqs |-> "none"]
  /\ child = [r \in Reqs |-> "none"]
  /\ kills = [r \in Reqs |-> 0]
  /\ elapsed = [r \in Reqs |-> 0]
  /\ killed = [r \in Reqs |-> FALSE]
  /\ softTimer = [r \in Reqs |-> "unset"]
  /\ hardTimer = [r \in Reqs |-> "unset"]
  /\ hb = [r \in Reqs |-> "unset"]
  /\ last = [r \in Reqs |-> InitLast]
  /\ samples = [r \in Reqs |-> << >>]
  /\ nlines = [r \in Reqs |-> 0]
  /\ errLines = [r \in Reqs |-> 0]
  /\ outcome = [r \in Reqs |-> NoOutcome]

\* No getOrDownload call has been made, the cache directory is empty.
GetInit ==
  /\ getCall = [c \in Reqs |-> NoCall]
  /\ partFile = [u \in GetUrls |-> 0]
  /\ cachedFile = [u \in GetUrls |-> 0]
  /\ inodeData = [i \in Reqs |-> {}]

\* The subtitle pipeline has nothing to do.
FitIdle ==
  /\ rawLines = << >>
  /\ subsTargetMs = FallbackAudioMs
  /\ fitLines = << >>
  /\ fitStage = "idle"

\* Nothing of a job has been computed yet.
JobBlank ==
  /\ storedExt = ""
  /\ audioSec = 0
  /\ videoSec = 0
  /\ videoMs = 0
  /\ filterComplex =
       [graph |-> << >>, title |-> << >>, footer |-> << >>,
        enableAudioOnly |-> [fn |-> "none", args |-> << >>],
        enableEndCard |-> [fn |-> "none", args |-> << >>]]
  /\ ffmpegArgs = << >>
  /\ shown = [t |-> 0 - 1, title |-> FALSE, footer |-> FALSE, endCard |-> FALSE]
  /\ debug = [audio_ms |-> 0, video_ms |-> 0, disable_subtitles |-> FALSE]

\* No job has got as far as storing its background.
JobIdle ==
  /\ jobIn = JobDefault
  /\ jobStage = "idle"
  /\ JobBlank

Init == HandlerInit /\ GetInit /\ FitIdle /\ JobIdle

assetVars == << resolves, fetches, cache >>

getVars == << getCall, partFile, cachedFile, inodeData >>

\* The state of the builds other than the one with the render lock.
fitVars == << rawLines, subsTargetMs, fitLines, fitStage >>

jobVars == << jobIn, jobStage, storedExt, audioSec, videoSec, videoMs, filterComplex,
             ffmpegArgs, shown, debug >>

variantVars == << getVars, fitVars, jobVars >>

runVars == << child, kills, elapsed, killed, softTimer, hardTimer, hb, last, samples,
              nlines, errLines, outcome >>

\* The response is sent and the finally block runs up to its first await:
\* the gate is released in the same callback.
Finish(r, rsp, fs) ==
  /\ resp' = [resp EXCEPT ![r] = rsp]
  /\ renderBusy' = BusyAfterFinally(rsp.status)
  /\ pc' = [pc EXCEPT ![r] = AfterFinally(fs)]

\* multer has stored the upload (when the body has the audio field) before the
\* handler runs.
Uploaded(in) == IF in.audio THEN {"audio"} ELSE {}

\* ------------------------------------------------ POST /render, first callback
\* Requests are numbered in the order in which their handlers are invoked.
Arrives(r) == pc[r] = "new" /\ \A q \in Reqs : q < r => pc[q] # "new"

\* The gate is busy: 503, before the try block.
Reject(r) ==
  /\ Arrives(r)
  /\ GateBusy(renderBusy)
  /\ \E in \in Inputs :
       /\ input' = [input EXCEPT ![r] = in]
       /\ files' = [files EXCEPT ![r] = Uploaded(in)]
  /\ resp' = [resp EXCEPT ![r] = BusyResponse]
  /\ renderBusy' = BusyAfterReject(renderBusy)
  /\ pc' = [pc EXCEPT ![r] = "done"]
  /\ UNCHANGED << assetVars, variantVars, probe, runVars >>

\* The message of the early 400 return the input runs into, "" when none.
EarlyReturn_NoAudioTest(in) ==
  IF in.payload.t \in {"missing", "empty"}
  THEN "Missing text field: payload (JSON string)"
  ELSE IF ~safeJsonParse(in.payload).ok THEN "Invalid JSON in payload"
  ELSE ""

EarlyReturn(in) ==
  IF ~in.audio THEN "Missing multipart file field: audio"
  ELSE IF in.payload.t \in {"missing", "empty"}
  THEN "Missing text field: payload (JSON string)"
  ELSE IF ~safeJsonParse(in.payload).ok THEN "Invalid JSON in payload"
  ELSE ""

\* The gate is idle: renderBusy = true, then one of the 400 returns inside the
\* try block; the finally block releases the gate in the same callback.
AdmitBadRequest(r) ==
  /\ Arrives(r)
  /\ ~GateBusy(renderBusy)
  /\ \E in \in Inputs :
       /\ EarlyReturn(in) # ""
       /\ input' = [input EXCEPT ![r] = in]
       /\ files' = [files EXCEPT ![r] = Uploaded(in)]
       /\ Finish(r, BadRequest(EarlyReturn(in)), Uploaded(in))
  /\ UNCHANGED << assetVars, variantVars, probe, runVars >>

\* The gate is idle, the payload parses, validatePayload throws: catch block.
AdmitInvalid(r) ==
  /\ Arrives(r)
  /\ ~GateBusy(renderBusy)
  /\ \E in \in Inputs :
       /\ EarlyReturn(in) = ""
       /\ validatePayload(safeJsonParse(in.payload).value) # ""
       /\ input' = [input EXCEPT ![r] = in]
       /\ files' = [files EXCEPT ![r] = Uploaded(in)]
       /\ Finish(r, CatchResponse(Err(validatePayload(safeJsonParse(in.payload).value),
                                      "undefined")), Uploaded(in))
  /\ UNCHANGED << assetVars, variantVars, probe, runVars >>

\* The gate is idle and the payload is valid: the handler suspends in the
\* first downloadToCache, holding the gate.
Admit(r) ==
  /\ Arrives(r)
  /\ ~GateBusy(renderBusy)
  /\ \E in \in Inputs :
       /\ EarlyReturn(in) = ""
       /\ validatePayload(safeJsonParse(in.payload).value) = ""
       /\ input' = [input EXCEPT ![r] = in]
       /\ files' = [files EXCEPT ![r] = Uploaded(in)]
  /\ renderBusy' = TRUE
  /\ pc' = [pc EXCEPT ![r] = "dl_bg"]
  /\ UNCHANGED << resp, assetVars, variantVars, probe, runVars >>

\* ------------------------------------------------------- downloadToCache
\* What a failed download throws: the Error of a non-ok response or a failed
\* fetch (no code), or the AbortError of the 20 s abort timer (DOMException code 20).
DownloadErrors ==
  { Err("Failed to download asset", "undefined"), Err("This operation was aborted", "20") }

\* The url that the downloadToCache call of request r is about: the
\* background first, then the end card.
AssetUrl(r) ==
  IF pc[r] = "dl_bg" THEN input[r].payload.v.bg ELSE input[r].payload.v.end

\* downloadToCache returns a path: the cached file that findExistingCached
\* found, or else the file it fetched and wrote.  After the background comes
\* the end card, after the end card ffprobe is spawned.  No other call of
\* downloadToCache runs between the lookup and the write: only the holder of
\* the gate is in this part of the handler.
DownloadOk(r) ==
  /\ pc[r] \in {"dl_bg", "dl_end"}
  /\ resolves' = [resolves EXCEPT ![r] = @ + 1]
  /\ IF findExistingCached(cache, sha1(AssetUrl(r))) # Undefined
     THEN UNCHANGED << fetches, cache >>
     ELSE /\ fetches' = [fetches EXCEPT ![r] = @ + 1]
          /\ cache' = cache \cup {StoredPath(AssetUrl(r))}
  /\ IF pc[r] = "dl_bg"
     THEN /\ pc' = [pc EXCEPT ![r] = "dl_end"]
          /\ UNCHANGED probe
     ELSE /\ pc' = [pc EXCEPT ![r] = "probe"]
          /\ probe' = [probe EXCEPT ![r] = "running"]
  /\ UNCHANGED << renderBusy, input, resp, files, runVars, variantVars >>

\* Nothing is cached for the url and the fetch fails: downloadToCache throws
\* before it writes; catch block, finally.
DownloadFail(r) ==
  /\ pc[r] \in {"dl_bg", "dl_end"}
  /\ findExistingCached(cache, sha1(AssetUrl(r))) = Undefined
  /\ resolves' = [resolves EXCEPT ![r] = @ + 1]
  /\ fetches' = [fetches EXCEPT ![r] = @ + 1]
  /\ \E e \in DownloadErrors : Finish(r, CatchResponse(e), files[r])
  /\ UNCHANGED << input, files, cache, probe, runVars, variantVars >>

\* ------------------------------------------- spawnSimple / ffprobeDurationMs
\* What ffprobeDurationMs throws for a prober that closed: nothing ("") for
\* exit code 0 with a positive finite duration on stdout.
ProbeCloseError(how) ==
  IF how = "invalid" THEN Err("Invalid ffprobe duration", "undefined")
  ELSE Err("ffprobe exited with code 1", "1")

\* The error of spawnSimple's timer.
ProbeTimeoutError == Err("ffprobe timeout after 15000ms", "ETIMEDOUT")

\* close with code 0 and a usable duration: the handler goes on to write the
\* subtitle file (writeAssFile, or the empty file when subtitles are disabled).
ProbeOk(r) ==
  /\ pc[r] = "probe" /\ probe[r] = "running"
  /\ probe' = [probe EXCEPT ![r] = "closed"]
  /\ pc' = [pc EXCEPT ![r] = "write_ass"]
  /\ UNCHANGED << renderBusy, input, resp, files, assetVars, variantVars, runVars >>

\* close with code 0 and an unusable duration, or with a non-zero code.
ProbeBad(r) ==
  /\ pc[r] = "probe" /\ probe[r] = "running"
  /\ probe' = [probe EXCEPT ![r] = "closed"]
  /\ \E how \in {"invalid", "exit"} : Finish(r, CatchResponse(ProbeCloseError(how)), files[r])
  /\ UNCHANGED << input, files, assetVars, variantVars, runVars >>

\* 'error': the prober could not be spawned.
ProbeSpawnError(r) ==
  /\ pc[r] = "probe" /\ probe[r] = "running"
  /\ probe' = [probe EXCEPT ![r] = "closed"]
  /\ Finish(r, CatchResponse(Err("spawn ffprobe ENOENT", "ENOENT")), files[r])
  /\ UNCHANGED << input, files, assetVars, variantVars, runVars >>

\* The 15 s timer of spawnSimple fires: SIGKILL, reject with code ETIMEDOUT.
ProbeTimeout(r) ==
  /\ pc[r] = "probe" /\ probe[r] = "running"
  /\ probe' = [probe EXCEPT ![r] = "killed"]
  /\ Finish(r, CatchResponse(ProbeTimeoutError), files[r])
  /\ UNCHANGED << input, files, assetVars, variantVars, runVars >>

\* The killed prober closes; its promise is settled already.
ProbeReap(r) ==
  /\ probe[r] = "killed"
  /\ probe' = [probe EXCEPT ![r] = "closed"]
  /\ UNCHANGED << renderBusy, pc, input, resp, files, assetVars, variantVars, runVars >>

\* ------------------------------------------------- subtitle file, ffmpeg spawn
\* The subtitle file is written; the handler builds the arguments and calls
\* runFfmpegWithProgress, which spawns ffmpeg and starts the heartbeat and the
\* two timers.
WriteAss(r) ==
  /\ pc[r] = "write_ass"
  /\ files' = [files EXCEPT ![r] = @ \cup {"ass"}]
  /\ pc' = [pc EXCEPT ![r] = "encoding"]
  /\ child' = [child EXCEPT ![r] = "running"]
  /\ hb' = [hb EXCEPT ![r] = "pending"]
  /\ softTimer' = [softTimer EXCEPT ![r] = "pending"]
  /\ hardTimer' = [hardTimer EXCEPT ![r] = "pending"]
  /\ outcome' = [outcome EXCEPT ![r] = Pending]
  /\ UNCHANGED << renderBusy, input, resp, assetVars, variantVars, probe, kills, elapsed, killed, last,
                  samples, nlines, errLines >>

\* The write of the subtitle file fails.
WriteAssFail(r) ==
  /\ pc[r] = "write_ass"
  /\ Finish(r, CatchResponse(Err("write failed", "EIO")), files[r])
  /\ UNCHANGED << input, files, assetVars, variantVars, probe, runVars >>

\* ------------------------------------------------------ runFfmpegWithProgress
Due(timer, timeoutMs, now) == timer = "pending" /\ now >= timeoutMs

Cleared(timer) == IF timer = "pending" THEN "cleared" ELSE timer

\* The first resolve or reject settles the promise; the handler, suspended in
\* "await runFfmpegWithProgress", then responds and runs its finally block.
\* Later calls of resolve/reject do nothing.
\* The mutant lets every resolve or reject settle the promise anew.
Settle_Overwrite(r, o) ==
  /\ outcome' = [outcome EXCEPT ![r] = o]
  /\ Finish(r, IF o.state = "resolved"
               THEN SuccessResponse(o, input[r].payload.v.dis)
               ELSE CatchResponse([message |-> o.message, code |-> o.code,
                                   ffmpeg_last |-> o.ffmpeg_last,
                                   ffmpeg_samples |-> o.ffmpeg_samples]),
            files[r])

Settle(r, o) ==
  IF outcome[r].state = "pending"
  THEN /\ outcome' = [outcome EXCEPT ![r] = o]
       /\ Finish(r, IF o.state = "resolved"
                    THEN SuccessResponse(o, input[r].payload.v.dis)
                    ELSE CatchResponse([message |-> o.message, code |-> o.code,
                                        ffmpeg_last |-> o.ffmpeg_last,
                                        ffmpeg_samples |-> o.ffmpeg_samples]),
                 files[r])
  ELSE UNCHANGED << outcome, resp, renderBusy, pc >>

\* Time passes for a run whose timers are pending; a timer that is due fires
\* before the clock is read again.
Tick(r) ==
  /\ softTimer[r] = "pending" \/ hardTimer[r] = "pending"
  /\ ~Due(softTimer[r], FFMPEG_TIMEOUT_MS, elapsed[r])
  /\ ~Due(hardTimer[r], HARD_TIMEOUT_MS, elapsed[r])
  /\ elapsed' = [elapsed EXCEPT ![r] = @ + TickMs]
  /\ UNCHANGED << renderBusy, pc, input, resp, files, assetVars, variantVars, probe, child, kills,
                  killed, softTimer, hardTimer, hb, last, samples, nlines, errLines,
                  outcome >>

\* child.stderr 'data': one line of the progress stream.
StderrLine(r) ==
  /\ child[r] = "running"
  /\ nlines[r] < MaxLines
  /\ \E line \in StderrLines :
       /\ last' = [last EXCEPT ![r] = UpdateLast(@, line)]
       /\ samples' = [samples EXCEPT ![r] = UpdateSamples(@, elapsed[r], last[r], line)]
       /\ errLines' = [errLines EXCEPT ![r] = @ + (IF line.kv THEN 0 ELSE 1)]
  /\ nlines' = [nlines EXCEPT ![r] = @ + 1]
  /\ UNCHANGED << renderBusy, pc, input, resp, files, assetVars, variantVars, probe, child, kills,
                  elapsed, killed, softTimer, hardTimer, hb, outcome >>

\* child.stderr 'data' with one block of "-progress pipe:2", BlockGapMs after
\* the event before it: the chunk "out_time_ms=1000000\nprogress=continue\n";
\* the handler takes the lines of the chunk in their order.
ProgressBlock(r) ==
  /\ child[r] = "running"
  /\ nlines[r] < 2 * MaxBlocks
  /\ ~Due(softTimer[r], FFMPEG_TIMEOUT_MS, elapsed[r])
  /\ ~Due(hardTimer[r], HARD_TIMEOUT_MS, elapsed[r])
  /\ LET t == elapsed[r] + BlockGapMs
         time == [kv |-> TRUE, key |-> "out_time_ms", val |-> "1000000"]
         prog == [kv |-> TRUE, key |-> "progress", val |-> "continue"]
         l1 == UpdateLast(last[r], time)
         s1 == UpdateSamples(samples[r], t, last[r], time)
     IN /\ elapsed' = [elapsed EXCEPT ![r] = t]
        /\ last' = [last EXCEPT ![r] = UpdateLast(l1, prog)]
        /\ samples' = [samples EXCEPT ![r] = UpdateSamples(s1, t, l1, prog)]
  /\ nlines' = [nlines EXCEPT ![r] = @ + 2]
  /\ UNCHANGED << renderBusy, pc, input, resp, files, assetVars, variantVars, probe, child, kills,
                  killed, softTimer, hardTimer, hb, errLines, outcome >>

\* ffmpeg opens its output file (-y outPath, in the public directory) at some
\* moment while it runs.
OutputOpen(r) ==
  /\ child[r] = "running"
  /\ "out" \notin files[r]
  /\ files' = [files EXCEPT ![r] = @ \cup {"out"}]
  /\ UNCHANGED << renderBusy, pc, input, resp, assetVars, variantVars, probe, runVars >>

\* The soft timer fires.
SoftTimerFire(r) ==
  /\ Due(softTimer[r], FFMPEG_TIMEOUT_MS, elapsed[r])
  /\ softTimer' = [softTimer EXCEPT ![r] = "fired"]
  /\ IF killed[r]
     THEN UNCHANGED << killed, kills, outcome, resp, renderBusy, pc >>
     ELSE /\ killed' = [killed EXCEPT ![r] = TRUE]
          /\ kills' = [kills EXCEPT ![r] = @ + 1]
          /\ Settle(r, Rejected(SoftTimeoutError(last[r], samples[r])))
  /\ UNCHANGED << input, files, assetVars, variantVars, probe, child, elapsed, hardTimer, hb, last,
                  samples, nlines, errLines >>

\* The hard timer fires; timers run in the order of their expiry, so a soft
\* timer that is due has fired before.
HardTimerFire(r) ==
  /\ Due(hardTimer[r], HARD_TIMEOUT_MS, elapsed[r])
  /\ ~Due(softTimer[r], FFMPEG_TIMEOUT_MS, elapsed[r])
  /\ hardTimer' = [hardTimer EXCEPT ![r] = "fired"]
  /\ IF killed[r]
     THEN UNCHANGED << killed, kills, outcome, resp, renderBusy, pc >>
     ELSE /\ killed' = [killed EXCEPT ![r] = TRUE]
          /\ kills' = [kills EXCEPT ![r] = @ + 1]
          /\ Settle(r, Rejected(HardTimeoutError(last[r], samples[r])))
  /\ UNCHANGED << input, files, assetVars, variantVars, probe, child, elapsed, softTimer, hb, last,
                  samples, nlines, errLines >>

\* The exit codes a close can report: 0 or 1, and null for a child that a
\* SIGKILL ended (a child that had exited when the signal was sent reports
\* its own code).
ExitCodes(nkills) == IF nkills > 0 THEN {"null", "0", "1"} ELSE {"0", "1"}

\* child 'close': heartbeat and timers are cleared; code 0 resolves, any other
\* code rejects.  The mutant leaves the timers and the heartbeat running.
ChildClose_TimersKept(r) ==
  /\ child[r] = "running"
  /\ child' = [child EXCEPT ![r] = "closed"]
  /\ \E code \in ExitCodes(kills[r]) :
       Settle(r, IF code = "0" THEN Resolved(last[r], samples[r], elapsed[r])
                 ELSE Rejected(ExitError(code, last[r], samples[r])))
  /\ UNCHANGED << input, files, assetVars, variantVars, probe, kills, elapsed, killed, last, samples,
                  nlines, errLines, hb, softTimer, hardTimer >>

ChildClose(r) ==
  /\ child[r] = "running"
  /\ child' = [child EXCEPT ![r] = "closed"]
  /\ hb' = [hb EXCEPT ![r] = Cleared(@)]
  /\ softTimer' = [softTimer EXCEPT ![r] = Cleared(@)]
  /\ hardTimer' = [hardTimer EXCEPT ![r] = Cleared(@)]
  /\ \E code \in ExitCodes(kills[r]) :
       Settle(r, IF code = "0" THEN Resolved(last[r], samples[r], elapsed[r])
                 ELSE Rejected(ExitError(code, last[r], samples[r])))
  /\ UNCHANGED << input, files, assetVars, variantVars, probe, kills, elapsed, killed, last, samples,
                  nlines, errLines >>

\* child 'error': ffmpeg could not be spawned.
ChildSpawnError(r) ==
  /\ child[r] = "running"
  /\ nlines[r] = 0 /\ elapsed[r] = 0 /\ kills[r] = 0
  /\ child' = [child EXCEPT ![r] = "failed"]
  /\ hb' = [hb EXCEPT ![r] = Cleared(@)]
  /\ softTimer' = [softTimer EXCEPT ![r] = Cleared(@)]
  /\ hardTimer' = [hardTimer EXCEPT ![r] = Cleared(@)]
  /\ Settle(r, Rejected(Err("spawn ffmpeg ENOENT", "ENOENT")))
  /\ UNCHANGED << input, files, assetVars, variantVars, probe, kills, elapsed, killed, last, samples,
                  nlines, errLines >>

\* ------------------------------------------------------------ finally, cleanup
\* await fsp.unlink(audioPath), then the existsSync test of the subtitle file.
UnlinkAudio(r) ==
  /\ pc[r] = "unlink_audio"
  /\ files' = [files EXCEPT ![r] = @ \ {"audio"}]
  /\ pc' = [pc EXCEPT ![r] = AfterFinally(files[r] \ {"audio"})]
  /\ UNCHANGED << renderBusy, input, resp, assetVars, variantVars, probe, runVars >>

\* await fsp.unlink(assPath): the handler returns.
UnlinkAss(r) ==
  /\ pc[r] = "unlink_ass"
  /\ files' = [files EXCEPT ![r] = @ \ {"ass"}]
  /\ pc' = [pc EXCEPT ![r] = "done"]
  /\ UNCHANGED << renderBusy, input, resp, assetVars, variantVars, probe, runVars >>

\* ----------------------------------------------- getOrDownload, downloadToFile
\* if (fs.existsSync(cached) && fs.statSync(cached).size > 0)
IsCached(url) == cachedFile[url] # 0 /\ SizeOf(inodeData[cachedFile[url]]) > 0

handlerVars == << renderBusy, pc, input, resp, files, assetVars, probe, runVars >>

\* getOrDownload(url) finds the cached file and returns its path.
GetCached(c) ==
  /\ getCall[c].stage = "idle"
  /\ \E url \in GetUrls :
       /\ IsCached(url)
       /\ getCall' = [getCall EXCEPT ![c] = GetCall("returned", url, 0, 0, "", 0)]
  /\ UNCHANGED << partFile, cachedFile, inodeData, handlerVars, fitVars, jobVars >>

\* getOrDownload(url) finds no cached file: downloadToFile sends the request.
GetRequest(c) ==
  /\ getCall[c].stage = "idle"
  /\ \E url \in GetUrls :
       /\ ~IsCached(url)
       /\ getCall' = [getCall EXCEPT ![c] = GetCall("requesting", url, 0, 0, "", 0)]
  /\ UNCHANGED << partFile, cachedFile, inodeData, handlerVars, fitVars, jobVars >>

\* The response has status 200: fs.createWriteStream(tmp) opens the .part
\* file for writing, which creates it or truncates the file that is there.
GetResponse(c) ==
  /\ getCall[c].stage = "requesting"
  /\ LET url == getCall[c].url
         ino == IF partFile[url] = 0 THEN c ELSE partFile[url]
     IN /\ partFile' = [partFile EXCEPT ![url] = ino]
        /\ inodeData' = [inodeData EXCEPT ![ino] = {}]
        /\ getCall' = [getCall EXCEPT ![c] = GetCall("writing", url, ino, 0, "", 0)]
  /\ UNCHANGED << cachedFile, handlerVars, fitVars, jobVars >>

\* res.pipe(file): the stream writes the next chunk at its own file position.
GetData(c) ==
  /\ getCall[c].stage = "writing"
  /\ getCall[c].pos < NumChunks
  /\ inodeData' = [inodeData EXCEPT ![getCall[c].fd] = @ \cup {getCall[c].pos + 1}]
  /\ getCall' = [getCall EXCEPT ![c].pos = @ + 1]
  /\ UNCHANGED << partFile, cachedFile, handlerVars, fitVars, jobVars >>

\* 'finish': file.close(resolve), then fs.renameSync(tmp, cached) in
\* getOrDownload; the call returns cached, or throws what renameSync throws.
GetFinish(c) ==
  /\ getCall[c].stage = "writing"
  /\ getCall[c].pos = NumChunks
  /\ LET url == getCall[c].url
     IN IF partFile[url] = 0
        THEN /\ getCall' = [getCall EXCEPT ![c].stage = "failed", ![c].error = RenameError,
                                           ![c].status = GetCatchStatus(RenameError)]
             /\ UNCHANGED << partFile, cachedFile >>
        ELSE /\ cachedFile' = [cachedFile EXCEPT ![url] = partFile[url]]
             /\ partFile' = [partFile EXCEPT ![url] = 0]
             /\ getCall' = [getCall EXCEPT ![c].stage = "returned"]
  /\ UNCHANGED << inodeData, handlerVars, fitVars, jobVars >>

\* downloadToFile rejects: a status other than 200 (before anything is
\* written), the request timeout, or an error of the request or response.
\* getOrDownload throws, and the catch block of the handler answers.
GetReject(c) ==
  /\ \/ getCall[c].stage = "requesting"
     \/ getCall[c].stage = "writing" /\ getCall[c].pos < NumChunks
  /\ \E msg \in DownloadToFileErrors :
       /\ msg = NotOkError => getCall[c].stage = "requesting"
       /\ getCall' = [getCall EXCEPT ![c].stage = "failed", ![c].error = msg,
                                     ![c].status = GetCatchStatus(msg)]
  /\ UNCHANGED << partFile, cachedFile, inodeData, handlerVars, fitVars, jobVars >>

GetNext ==
  \E c \in Reqs :
    \/ GetCached(c) \/ GetRequest(c) \/ GetResponse(c) \/ GetData(c) \/ GetFinish(c)
    \/ GetReject(c)

\* ----------------------------------------------- subtitle pipeline, by statement
otherVars == << handlerVars, getVars, jobVars >>

\* let lines = normalizeSubtitleLines(rawLines)
Normalize ==
  /\ fitStage = "raw"
  /\ fitLines' = normalizeSubtitleLines(rawLines)
  /\ fitStage' = "normalized"
  /\ UNCHANGED << rawLines, subsTargetMs, otherVars >>

\* lines = enforceConsecutiveWithClamp(lines, style.subs.min_dur, style.subs.max_dur)
Clamp ==
  /\ fitStage = "normalized"
  /\ fitLines' = enforceConsecutiveWithClamp(fitLines, min_dur, max_dur)
  /\ fitStage' = "clamped"
  /\ UNCHANGED << rawLines, subsTargetMs, otherVars >>

\* lines = proportionalFitToTarget(lines, subsTargetMs)
Fit ==
  /\ fitStage = "clamped"
  /\ fitLines' = proportionalFitToTarget(fitLines, subsTargetMs)
  /\ fitStage' = "fitted"
  /\ UNCHANGED << rawLines, subsTargetMs, otherVars >>

\* lines = enforceConsecutiveWithClamp(lines, ...), the second time
Reclamp ==
  /\ fitStage = "fitted"
  /\ fitLines' = enforceConsecutiveWithClamp(fitLines, min_dur, max_dur)
  /\ fitStage' = "reclamped"
  /\ UNCHANGED << rawLines, subsTargetMs, otherVars >>

\* if (lines.length) lines[lines.length - 1].end_ms = subsTargetMs
PinLastEnd ==
  /\ fitStage = "reclamped"
  /\ fitLines' = WithLastEnd(fitLines, subsTargetMs)
  /\ fitStage' = "pinned"
  /\ UNCHANGED << rawLines, subsTargetMs, otherVars >>

FitNext == Normalize \/ Clamp \/ Fit \/ Reclamp \/ PinLastEnd

\* The handler has parsed the payload and measured the audio.
FitInit ==
  /\ HandlerInit /\ GetInit /\ JobIdle
  /\ rawLines \in RawInputs
  /\ subsTargetMs \in TargetSet
  /\ fitLines = << >>
  /\ fitStage = "raw"

\* --------------------------- the build with the request-wide hard timer
\* This build has no render lock and no clock is kept for it: its downloads
\* have no timeout, so the handler can reach the encoder at any time after the
\* request started, and the timer of the request (HARD_TIMEOUT_MS = 240 s after
\* the request started) and the timer of spawnAsync (FFMPEG_TIMEOUT_MS = 210 s
\* after the spawn) can fire in either order, before or after the child closes.
\* Of the run variables it uses child, kills, killed (let killedByTimeout),
\* softTimer (let t of spawnAsync), hardTimer (const hardTimer of the handler)
\* and outcome (renderPromise).
timerVars == << renderBusy, assetVars, variantVars, probe, elapsed, hb, last, samples,
               nlines, errLines >>

\* A response is sent and the finally block runs: clearTimeout(hardTimer),
\* then the upload is unlinked.  fs are the request's files before it.
RespondAndFinally(r, status, error, fs) ==
  /\ resp' = [resp EXCEPT ![r] = Response(status, status = 200, error, "undefined",
                                          Undefined, Undefined, FALSE)]
  /\ hardTimer' = [hardTimer EXCEPT ![r] = IF @ = "fired" THEN "fired" ELSE "cleared"]
  /\ files' = [files EXCEPT ![r] = fs \ {"audio"}]
  /\ pc' = [pc EXCEPT ![r] = "done"]

\* POST /render, first callback: the hard timer is set; then one of the 400
\* returns, or validatePayload throws (500), or the handler suspends in the
\* first downloadToCache.  The tests of the request and of the payload are
\* those of the build with the render lock.
HardTimedStart(r) ==
  /\ Arrives(r)
  /\ \E in \in Inputs :
       /\ input' = [input EXCEPT ![r] = in]
       /\ IF EarlyReturn(in) # ""
          THEN RespondAndFinally(r, 400, EarlyReturn(in), Uploaded(in))
          ELSE IF validatePayload(safeJsonParse(in.payload).value) # ""
          THEN RespondAndFinally(r, 500, validatePayload(safeJsonParse(in.payload).value),
                                 Uploaded(in))
          ELSE /\ hardTimer' = [hardTimer EXCEPT ![r] = "pending"]
               /\ files' = [files EXCEPT ![r] = Uploaded(in)]
               /\ pc' = [pc EXCEPT ![r] = "prepare"]
               /\ UNCHANGED resp
  /\ UNCHANGED << timerVars, child, kills, killed, softTimer, outcome >>

\* The downloads, ffprobe and writeAssFile: one of them throws (500), or all
\* return and, in one callback, spawnAsync spawns ffmpeg and sets its timer,
\* the listener for 'abort' is added and the handler suspends in the race.
HardTimedPrepare(r) ==
  /\ pc[r] = "prepare"
  /\ \/ /\ \E err \in DownloadErrors : RespondAndFinally(r, 500, err.message, files[r])
        /\ UNCHANGED << child, softTimer, outcome >>
     \/ /\ child' = [child EXCEPT ![r] = "running"]
        /\ softTimer' = [softTimer EXCEPT ![r] = "pending"]
        /\ outcome' = [outcome EXCEPT ![r] = Pending]
        /\ files' = [files EXCEPT ![r] = @ \cup {"ass"}]
        /\ pc' = [pc EXCEPT ![r] = "race"]
        /\ UNCHANGED << resp, hardTimer >>
  /\ UNCHANGED << timerVars, input, kills, killed >>

\* const hardTimer = setTimeout(() => abortController.abort(), HARD_TIMEOUT_MS)
\* fires.  A listener that was added before hears the event and rejects
\* abortPromise: the race rejects with HARD_TIMEOUT and the handler answers
\* 504.  A listener added after the signal was aborted is never called.
HardTimedAbort(r) ==
  /\ hardTimer[r] = "pending"
  /\ IF pc[r] = "race"
     THEN /\ RespondAndFinally(r, 504, "Render timeout", files[r])
          /\ hardTimer' = [hardTimer EXCEPT ![r] = "fired"]
     ELSE /\ hardTimer' = [hardTimer EXCEPT ![r] = "fired"]
          /\ UNCHANGED << resp, files, pc >>
  /\ UNCHANGED << timerVars, input, child, kills, killed, softTimer, outcome >>

\* The timer of spawnAsync fires: killedByTimeout = true; child.kill("SIGKILL")
SpawnTimerFire(r) ==
  /\ softTimer[r] = "pending"
  /\ softTimer' = [softTimer EXCEPT ![r] = "fired"]
  /\ killed' = [killed EXCEPT ![r] = TRUE]
  /\ kills' = [kills EXCEPT ![r] = @ + 1]
  /\ UNCHANGED << timerVars, pc, input, resp, files, child, hardTimer, outcome >>

\* child 'error' (ffmpeg could not be spawned) or child 'close' of spawnAsync:
\* the timer is cleared and renderPromise settles; a handler that is still
\* suspended in the race answers 504 for ETIMEDOUT, 500 for another error, 200
\* for the result.
SpawnClose(r) ==
  /\ child[r] = "running"
  /\ softTimer' = [softTimer EXCEPT ![r] = Cleared(@)]
  /\ \E ev \in ExitCodes(kills[r]) \cup (IF kills[r] = 0 THEN {"ENOENT"} ELSE {}) :
       LET o == IF ev = "ENOENT" THEN Rejected(Err("spawn ffmpeg ENOENT", "ENOENT"))
                ELSE IF killed[r] THEN Rejected(Err("ffmpeg timeout", "ETIMEDOUT"))
                ELSE IF ev = "0" THEN [Pending EXCEPT !.state = "resolved"]
                ELSE Rejected(Err("ffmpeg exited with code", ev))
       IN /\ child' = [child EXCEPT ![r] = IF ev = "ENOENT" THEN "failed" ELSE "closed"]
          /\ outcome' = [outcome EXCEPT ![r] = o]
          /\ IF pc[r] = "race"
             THEN RespondAndFinally(r, IF o.state = "resolved" THEN 200
                                       ELSE IF o.code = "ETIMEDOUT" THEN 504 ELSE 500,
                                    IF o.code = "ETIMEDOUT" THEN "Render timeout"
                                    ELSE o.message, files[r])
             ELSE UNCHANGED << resp, hardTimer, files, pc >>
  /\ UNCHANGED << timerVars, input, kills, killed >>

\* ------------------------------------- the fitter of the build with the lock
\* const scaledLines = scaleSubtitleLinesToAudio(payload.subtitles.lines, audioMs)
ScaleToAudio ==
  /\ fitStage = "raw"
  /\ fitLines' = scaleSubtitleLinesToAudio(rawLines, subsTargetMs)
  /\ fitStage' = "scaled"
  /\ UNCHANGED << rawLines, subsTargetMs, otherVars >>

\* The handler has validated the payload (subtitles.lines is a non-empty
\* array, its entries are not looked at) and measured the audio.  The lines
\* have times in whole milliseconds; they may leave gaps, overlap, start after
\* 0 or end before they start.
ScaleInit ==
  /\ HandlerInit /\ GetInit /\ JobIdle
  /\ rawLines \in UNION { [1..n -> { SubLine(st, en, "a") : st \in {0, 100, 600},
                                                            en \in {500, 1000} }] :
                           n \in 1..MaxRawLines }
  /\ subsTargetMs \in { 1000, 1040, 1500, 3000 }
  /\ fitLines = << >>
  /\ fitStage = "raw"

\* ------------------------------------------------- one job's data path
\* downloadToCache, after the fetch: the extension of the stored background.
StoreAsset ==
  /\ jobStage = "start"
  /\ storedExt' = ExtOf(toLowerCase(jobIn.contentType), jobIn.uext)
  /\ jobStage' = "stored"
  /\ UNCHANGED << jobIn, audioSec, videoSec, videoMs, filterComplex, ffmpegArgs, shown, debug,
                  handlerVars, getVars, fitVars >>

\* const audioSec = audioMs / 1000; const videoSec = audioSec + 4.0;
\* const videoMs = Math.round(videoSec * 1000)
Measure ==
  /\ jobStage = "stored"
  /\ audioSec' = jobIn.audioMs * 1000 + jobIn.roundOff[1]
  /\ videoSec' = audioSec' + 4000000 + jobIn.roundOff[2]
  /\ videoMs' = MathRound(videoSec' + jobIn.roundOff[3])
  /\ jobStage' = "measured"
  /\ UNCHANGED << jobIn, storedExt, filterComplex, ffmpegArgs, shown, debug,
                  handlerVars, getVars, fitVars >>

\* const filterComplex = buildFilterComplex({ ... }), on the title and footer
\* that validatePayload has trimmed.
BuildFilter ==
  /\ jobStage = "measured"
  /\ filterComplex' = buildFilterComplex(trim(jobIn.title), trim(jobIn.footer), audioSec,
                                         videoSec, disableSubtitles(jobIn.disable_subtitles))
  /\ jobStage' = "built"
  /\ UNCHANGED << jobIn, storedExt, audioSec, videoSec, videoMs, ffmpegArgs, shown, debug,
                  handlerVars, getVars, fitVars >>

\* const ffmpegArgs = [...]; runFfmpegWithProgress spawns the encoder.
StartEncoder ==
  /\ jobStage = "built"
  /\ ffmpegArgs' = BuildArgs
  /\ jobStage' = "encoding"
  /\ UNCHANGED << jobIn, storedExt, audioSec, videoSec, videoMs, filterComplex, shown, debug,
                  handlerVars, getVars, fitVars >>

\* ffmpeg composes a frame: it evaluates the enable expressions at its time.
\* The times of the frames looked at, in milliseconds: -t videoSec.toFixed(3)
\* ends the output before that time.
Frame ==
  /\ jobStage = "encoding"
  /\ \E t \in { u \in { 0, jobIn.audioMs - 1, jobIn.audioMs, jobIn.audioMs + 1,
                         jobIn.audioMs + 2000, toFixed3(videoSec) - 1 } :
                   0 <= u /\ u < toFixed3(videoSec) } :
       shown' = [t |-> t,
                 title |-> Enabled(filterComplex.enableAudioOnly, t),
                 footer |-> Enabled(filterComplex.enableAudioOnly, t),
                 endCard |-> Enabled(filterComplex.enableEndCard, t)]
  /\ UNCHANGED << jobIn, jobStage, storedExt, audioSec, videoSec, videoMs, filterComplex,
                  ffmpegArgs, debug, handlerVars, getVars, fitVars >>

\* The encoder has closed with code 0: res.json({ ok: true, ..., debug: { ... } })
Respond ==
  /\ jobStage = "encoding"
  /\ debug' = [audio_ms |-> jobIn.audioMs, video_ms |-> videoMs,
               disable_subtitles |-> disableSubtitles(jobIn.disable_subtitles)]
  /\ jobStage' = "responded"
  /\ UNCHANGED << jobIn, storedExt, audioSec, videoSec, videoMs, filterComplex, ffmpegArgs,
                  shown, handlerVars, getVars, fitVars >>

JobNext == StoreAsset \/ Measure \/ BuildFilter \/ StartEncoder \/ Frame \/ Respond

\* The handler has validated the payload and fetched the background.
JobInit ==
  /\ HandlerInit /\ GetInit /\ FitIdle
  /\ jobIn \in JobInputs
  /\ jobStage = "start"
  /\ JobBlank

\* ------------------------------------------------------------------ Next
Arrive(r) == Reject(r) \/ AdmitBadRequest(r) \/ AdmitInvalid(r) \/ Admit(r)

Progress(r) ==
  \/ DownloadOk(r) \/ DownloadFail(r)
  \/ ProbeOk(r) \/ ProbeBad(r) \/ ProbeSpawnError(r) \/ ProbeTimeout(r) \/ ProbeReap(r)
  \/ WriteAss(r) \/ WriteAssFail(r)
  \/ Tick(r) \/ SoftTimerFire(r) \/ HardTimerFire(r)
  \/ ChildClose(r) \/ ChildSpawnError(r)
  \/ UnlinkAudio(r) \/ UnlinkAss(r)

Next == \E r \in Reqs : Arrive(r) \/ Progress(r)

\* The requests and the gate.  The progress stream is left out here: last and
\* samples are only ever copied into results and never read by a condition, so
\* what ffmpeg prints changes no control flow.
Spec == Init /\ [][Next]_vars

\* One request with its encoder run, the progress stream of that run and the
\* output file that the run writes.
RunNext ==
  \/ AdmitBadRequest(1) \/ AdmitInvalid(1) \/ Admit(1)
  \/ Progress(1)
  \/ StderrLine(1)
  \/ OutputOpen(1)

RunSpec == Init /\ [][RunNext]_vars

\* The requests of the build with the request-wide hard timer.
HardTimedSpec ==
  Init /\ [][\E r \in Reqs : HardTimedStart(r) \/ HardTimedPrepare(r) \/ HardTimedAbort(r)
                             \/ SpawnTimerFire(r) \/ SpawnClose(r)]_vars

\* One request with a long encoder run that prints progress blocks.
BurstSpec ==
  Init /\ [][AdmitBadRequest(1) \/ AdmitInvalid(1) \/ Admit(1) \/ Progress(1)
             \/ ProgressBlock(1)]_vars

\* The event loop does not stop while a callback is pending: downloads settle
\* (the fetch has its abort timer), children close or their timers fire.
FairSpec == Spec /\ WF_vars(\E r \in Reqs : Progress(r))

\* Concurrent getOrDownload calls of the build that has no render lock.
GetSpec == Init /\ [][GetNext]_vars

\* The subtitle pipeline on every array of lines and every audio duration
\* of the input sets.
FitSpec == FitInit /\ [][FitNext]_vars

\* One job from the stored background to the response, on every job of the
\* input sets.
JobSpec == JobInit /\ [][JobNext]_vars

\* The fitter of the build with the render lock, over the lines and audio
\* durations of ScaleInit.
ScaleSpec == ScaleInit /\ [][ScaleToAudio]_vars

\* ================================================================ claims
\* The handler of request r is suspended between "renderBusy = true" and the
\* "renderBusy = false" of its finally block.
Holding(r) == pc[r] \in {"dl_bg", "dl_end", "probe", "write_ass", "encoding"}

Holders == { r \in Reqs : Holding(r) }

\* C1: under every interleaving at most one request is between its acquire
\* (renderBusy set to true) and its release, and the flag is true exactly
\* while some request is.
C1_SingleHolder ==
  /\ Cardinality(Holders) <= 1
  /\ renderBusy <=> Holders # {}

\* A request holds the gate while another one came and was turned away.
C1_Witness ==
  \E r, q \in Reqs : r # q /\ Holding(r) /\ pc[r] = "encoding" /\ resp[q].status = 503

\* C2: a request that arrives while the gate is busy is answered 503 in its
\* first callback and is done; it never resolves an asset, probes or spawns
\* the encoder, then or later; it leaves renderBusy true; and renderBusy goes
\* from true to false only in a step in which the holder answers and leaves.
C2_BusyRejected ==
  /\ [](\A r \in Reqs : resp[r].status = 503 =>
          pc[r] = "done" /\ resolves[r] = 0 /\ probe[r] = "none" /\ child[r] = "none")
  /\ [][\A r \in Reqs :
          /\ (pc[r] = "new" /\ pc'[r] # "new" /\ renderBusy) =>
               resp'[r].status = 503 /\ pc'[r] = "done" /\ renderBusy'
          /\ (renderBusy /\ ~renderBusy') =>
               \E h \in Reqs : Holding(h) /\ pc'[h] \notin {"new", pc[h]}
                               /\ resp'[h].status \notin {0, 503}
                               /\ resp[h].status = 0
                               /\ \A q \in Reqs \ {h} : pc'[q] = pc[q]]_vars

\* A request was turned away, and later the holder answered and released.
C2_Witness ==
  \E r, q \in Reqs : r # q /\ resp[q].status = 503 /\ resp[r].status = 200 /\ ~renderBusy

\* C3: whenever a request holds the gate, the gate is eventually held by no
\* request; a request stops holding it only by answering; and every step in
\* which an admitted request answers (200, 400, 500 or 504) leaves the gate
\* idle, so that the next request to arrive is admitted.
C3_AlwaysReleased ==
  /\ (Holders # {}) ~> (Holders = {})
  /\ [][\A r \in Reqs :
          /\ (Holding(r) /\ ~Holding(r)') => resp'[r].status \notin {0, 503}
          /\ (resp[r].status = 0 /\ resp'[r].status \notin {0, 503}) =>
                ~renderBusy' /\ ~Holding(r)']_vars

\* A request ended in a timeout and the request after it was admitted.
C3_Witness ==
  \E r, q \in Reqs : r # q /\ resp[r].status = 504 /\ outcome[r].code = "ETIMEDOUT"
                     /\ Holding(q)

\* C4: at most one ffmpeg child is spawned and not yet closed.
C4_OneEncoder == Cardinality({ r \in Reqs : child[r] = "running" }) <= 1

\* C5: a step in which the soft timer fires on a run sends one SIGKILL to the
\* child and rejects the run with code ETIMEDOUT, carrying the last progress
\* record and the recent samples as they are at that moment; the request is
\* answered 504 in the same step with that record as its debug.ffmpeg_last,
\* and the response is not changed by what the child prints afterwards.
C5_SoftTimeout ==
  [][\A r \in Reqs :
       /\ (softTimer[r] = "pending" /\ softTimer'[r] = "fired") =>
            /\ child[r] = "running"
            /\ kills'[r] = kills[r] + 1
            /\ outcome'[r].state = "rejected"
            /\ outcome'[r].code = "ETIMEDOUT"
            /\ outcome'[r].ffmpeg_last = Def(last[r])
            /\ outcome'[r].ffmpeg_samples = Def(Recent(samples[r]))
            /\ resp'[r].status = 504
            /\ resp'[r].ffmpeg_last = Def(last[r])
            /\ "ffmpeg_last" \in DebugKeys(resp'[r])
       /\ resp[r].status = 504 => resp'[r] = resp[r]]_vars

\* The soft timer fired on a run that had reported progress, and the child
\* printed more after the 504 was sent.
C5_Witness ==
  \E r \in Reqs : /\ softTimer[r] = "fired" /\ resp[r].status = 504
                  /\ resp[r].ffmpeg_last # Def(InitLast)
                  /\ resp[r].ffmpeg_last # Def(last[r])

\* C6: a step in which the hard timer fires after the soft timer has fired,
\* on a child that has still not closed, sends a SIGKILL, and the run then
\* reports code HARD_TIMEOUT.
C6_HardTimeout ==
  [][\A r \in Reqs :
       (hardTimer[r] = "pending" /\ hardTimer'[r] = "fired"
        /\ softTimer[r] = "fired" /\ child[r] = "running") =>
          kills'[r] = kills[r] + 1 /\ outcome'[r].code = "HARD_TIMEOUT"]_vars

\* The run of request r ended with the close of a child that no timer had killed.
ClosedByItself(r) == child[r] = "closed" /\ kills[r] = 0

\* C7: a child that closes before a timer fires resolves, for exit code 0,
\* with the last progress record, the recent samples and the elapsed time;
\* for any other code the request is answered 500 with the last progress
\* record and with the text the child wrote to its error stream.
C7_CloseOutcome ==
  \A r \in Reqs : ClosedByItself(r) =>
    IF outcome[r].state = "resolved"
    THEN /\ resp[r].status = 200
         /\ outcome[r].ffmpeg_last # Undefined
         /\ outcome[r].ffmpeg_samples # Undefined
         /\ outcome[r].elapsed_ms # Undefined
    ELSE /\ resp[r].status = 500
         /\ "ffmpeg_last" \in DebugKeys(resp[r])
         /\ errLines[r] > 0 => "ffmpeg_stderr" \in DebugKeys(resp[r])

\* The request was admitted (it was not turned away with 503) and has answered.
Admitted(r) == resp[r].status \notin {0, 503}

\* C8: a 504 is sent only for a soft or hard timeout of the encoder run and
\* carries the last progress record; every other failure of an admitted
\* request is answered 500.
C8_TimeoutStatus ==
  \A r \in Reqs :
    /\ resp[r].status = 504 =>
         /\ outcome[r].state = "rejected"
         /\ outcome[r].code \in {"ETIMEDOUT", "HARD_TIMEOUT"}
         /\ "ffmpeg_last" \in DebugKeys(resp[r])
    /\ (Admitted(r) /\ input[r].audio /\ EarlyReturn(input[r]) = ""
        /\ validatePayload(input[r].payload.v) = ""
        /\ ~(outcome[r].state = "rejected"
             /\ outcome[r].code \in {"ETIMEDOUT", "HARD_TIMEOUT"})
        /\ outcome[r].state # "resolved") => resp[r].status = 500

\* The payload of the request is valid JSON that validatePayload refuses.
FailsValidation(in) ==
  in.audio /\ in.payload.t = "json" /\ validatePayload(in.payload.v) # ""

\* C9: an admitted request whose payload is valid JSON but fails the
\* validation of the required fields is answered 400 with ok:false.
C9_Validation400 ==
  \A r \in Reqs : (Admitted(r) /\ FailsValidation(input[r])) =>
                     resp[r].status = 400 /\ ~resp[r].ok

\* C10: a request whose payload field is not valid JSON is answered 400,
\* whatever the state of the gate when it arrives, and no ffprobe or ffmpeg
\* child is spawned for it.
C10_BadJson400 ==
  \A r \in Reqs : (resp[r].status # 0 /\ input[r].audio /\ input[r].payload.t = "badjson") =>
                     resp[r].status = 400 /\ probe[r] = "none" /\ child[r] = "none"

\* The request does not pass validation: the audio file field is missing, the
\* payload field is missing or empty, it is not JSON, or validatePayload
\* refuses it.
InvalidInput(in) ==
  \/ ~in.audio
  \/ in.payload.t # "json"
  \/ validatePayload(in.payload.v) # ""

C12_RejectedLeavesNothing ==
  \A r \in Reqs : (resp[r].status = 503 /\ pc[r] = "done") => files[r] = {}

\* The request passed validation, was answered with a failure, and its handler
\* has returned.
FailedAndDone(r) ==
  pc[r] = "done" /\ ~InvalidInput(input[r]) /\ resp[r].status \in {500, 504}

\* C13: when an admitted request that failed after validation (download,
\* probe, subtitle write, encoder exit or timeout) completes, none of its
\* upload, its subtitle file and its output video is left on disk.
C13_FailureCleansUp ==
  \A r \in Reqs : FailedAndDone(r) => files[r] = {}

\* A downloadToCache call of request r returns a path in this step.
Resolves(r) ==
  \/ pc[r] = "dl_bg" /\ pc'[r] = "dl_end"
  \/ pc[r] = "dl_end" /\ pc'[r] = "probe"

\* An earlier downloadToCache call for the url succeeded in fetching it: the
\* file that it wrote is in the cache directory (no file is ever removed).
FetchedBefore(url) == StoredPath(url) \in cache

\* C14: a downloadToCache call that comes after a call for the same url that
\* fetched and stored it returns without a network fetch and without writing,
\* so that the two calls make one fetch in total; this for the url whose
\* extension comes from the content type and for the url whose extension
\* comes from its path.
C14_SecondResolveNoFetch ==
  [][\A r \in Reqs : (Resolves(r) /\ FetchedBefore(AssetUrl(r))) =>
        fetches'[r] = fetches[r] /\ cache' = cache]_vars

\* The cache directory has a file for the url, under whatever extension.
HasEntry(url) == \E p \in cache : p.base = sha1(url)

\* C18: no step removes a file from the cache directory, whatever the outcome
\* of the request that takes it, and a fetch is issued only for a url that has
\* no file in the cache directory: what an earlier job stored is reused.
C18_CacheKeptAndReused ==
  [][/\ cache \subseteq cache'
     /\ \A r \in Reqs : fetches'[r] # fetches[r] => ~HasEntry(AssetUrl(r))]_vars

\* The file at the cache path of the url holds every chunk of the body.
Complete(url) == inodeData[cachedFile[url]] = Chunks

\* C15: a getOrDownload call whose download ran to its end returns the cache
\* path: no call fails for another reason than a failed download, also when
\* another call for the same url runs at the same time.
C15_ConcurrentBothSucceed ==
  \A c \in Reqs : getCall[c].stage = "failed" => getCall[c].error \in DownloadToFileErrors

\* C16: whenever a file is at the cache path of a url it holds the whole
\* body, and in the step in which a getOrDownload call returns the path no
\* write stream of another call is still writing to that file.
C16_OnlyCompleteVisible ==
  /\ [](\A url \in GetUrls : cachedFile[url] # 0 => Complete(url))
  /\ [][\A c \in Reqs :
          (getCall[c].stage # "returned" /\ getCall'[c].stage = "returned") =>
             \A w \in Reqs : ~(/\ getCall'[w].stage = "writing"
                               /\ getCall'[w].pos < NumChunks
                               /\ getCall'[w].fd = cachedFile'[getCall'[c].url])]_vars

\* C17: when the fetch of a getOrDownload call fails (status other than 200,
\* network error, download timeout) the request is answered 500 and no file
\* appears at the cache path in that step; and a call for a url that has no
\* file at its cache path sends a fresh request.
C17_FetchFailure ==
  [][\A c \in Reqs :
       /\ (getCall[c].stage # "failed" /\ getCall'[c].stage = "failed"
           /\ getCall'[c].error \in DownloadToFileErrors) =>
              getCall'[c].status = 500 /\ cachedFile' = cachedFile
       /\ (getCall[c].stage = "idle" /\ getCall'[c].stage # "idle"
           /\ cachedFile[getCall'[c].url] = 0) => getCall'[c].stage = "requesting"]_vars

\* The input has at least one line that the filter keeps.
HasValidLine == \E i \in DOMAIN rawLines : IsValidLine(rawLines[i])

\* The lines as they are before the fit: normalized and clamped.
ClampedLines == enforceConsecutiveWithClamp(normalizeSubtitleLines(rawLines), min_dur, max_dur)

\* The fit takes its scaling branch: the clamped timeline ends more than the
\* tolerance away from the audio duration.
ScalingBranch ==
  /\ ClampedLines # << >>
  /\ MathAbs(subsTargetMs - ClampedLines[Len(ClampedLines)].end_ms) > 250

C20_LastEndIsAudio ==
  (fitStage = "pinned" /\ HasValidLine) =>
    Len(fitLines) >= 1 /\ fitLines[Len(fitLines)].end_ms = subsTargetMs

\* The pipeline has ended after the scaling branch, and the second clamp had
\* left the last end away from the audio duration.
C20_Witness ==
  /\ fitStage = "pinned" /\ HasValidLine /\ ScalingBranch
  /\ LET re == enforceConsecutiveWithClamp(
                  proportionalFitToTarget(ClampedLines, subsTargetMs), min_dur, max_dur)
     IN re[Len(re)].end_ms # subsTargetMs
  /\ fitLines[Len(fitLines)].end_ms = subsTargetMs

\* C21: for an input with at least one valid line, every line that the
\* pipeline ends with, the last one included, lasts at least min_dur and at
\* most max_dur.
C21_DurationsInRange ==
  (fitStage = "pinned" /\ HasValidLine) =>
    \A i \in DOMAIN fitLines :
      /\ fitLines[i].end_ms - fitLines[i].start_ms >= min_dur
      /\ fitLines[i].end_ms - fitLines[i].start_ms <= max_dur

\* C22: every line that the pipeline ends with has its end after its start,
\* for every number of input lines and every audio duration.
C22_EndAfterStart ==
  fitStage = "pinned" =>
    \A i \in DOMAIN fitLines : fitLines[i].end_ms > fitLines[i].start_ms

\* floor(boundary * audioMs / lastEnd), the quotient taken exactly.
ExactFloor(x) == (x * subsTargetMs) \div ClampedLines[Len(ClampedLines)].end_ms

\* Math.floor(boundary * scale) as the fit computes it.
DoubleFloor(x) == FloorScaled(x, subsTargetMs, ClampedLines[Len(ClampedLines)].end_ms)

\* The fit has run through its scaling branch.
Scaled == fitStage \in {"fitted", "pinned"} /\ ScalingBranch

\* C23 as stated: when the fit scales and every duration between the exact
\* floors stays within [550, 1700], every boundary of the fitted lines is the
\* exact floor of boundary * audioMs / lastEnd, and the final end is audioMs.
C23_BoundariesExactFloor ==
  (/\ Scaled
   /\ \A i \in DOMAIN ClampedLines :
        /\ ExactFloor(ClampedLines[i].end_ms) - ExactFloor(ClampedLines[i].start_ms) >= 550
        /\ ExactFloor(ClampedLines[i].end_ms) - ExactFloor(ClampedLines[i].start_ms) <= 1700)
  => /\ Len(fitLines) = Len(ClampedLines)
     /\ \A i \in DOMAIN fitLines :
          /\ fitLines[i].start_ms = ExactFloor(ClampedLines[i].start_ms)
          /\ fitLines[i].end_ms = ExactFloor(ClampedLines[i].end_ms)
     /\ fitLines[Len(fitLines)].end_ms = subsTargetMs

\* C23 as amended: when the fit scales and every duration between the floors
\* that the code computes stays within [550, 1700], every boundary of the
\* fitted lines but the final end is Math.floor(boundary * scale), which is
\* the exact floor of boundary * audioMs / lastEnd or, only where lastEnd
\* divides boundary * audioMs, one less; the final end is audioMs.
C23_BoundariesFloorOfDouble ==
  (/\ Scaled
   /\ \A i \in DOMAIN ClampedLines :
        /\ DoubleFloor(ClampedLines[i].end_ms) - DoubleFloor(ClampedLines[i].start_ms) >= 550
        /\ DoubleFloor(ClampedLines[i].end_ms) - DoubleFloor(ClampedLines[i].start_ms) <= 1700)
  => /\ Len(fitLines) = Len(ClampedLines)
     /\ \A i \in DOMAIN fitLines :
          /\ \/ fitLines[i].start_ms = ExactFloor(ClampedLines[i].start_ms)
             \/ /\ fitLines[i].start_ms = ExactFloor(ClampedLines[i].start_ms) - 1
                /\ (ClampedLines[i].start_ms * subsTargetMs)
                     % ClampedLines[Len(ClampedLines)].end_ms = 0
          /\ i < Len(fitLines) => fitLines[i].end_ms = fitLines[i + 1].start_ms
     /\ fitLines[1].start_ms = 0
     /\ fitLines[Len(fitLines)].end_ms = subsTargetMs

\* The fit has scaled two lines and the boundary between them is one below
\* the exact floor.
C23_Witness ==
  /\ Scaled /\ fitStage = "pinned" /\ Len(fitLines) = 2
  /\ fitLines[2].start_ms = ExactFloor(ClampedLines[2].start_ms) - 1
  /\ fitLines[1].end_ms - fitLines[1].start_ms >= 550
  /\ fitLines[2].end_ms - fitLines[2].start_ms <= 1700

\* The stage of the job that a handler position belongs to: 0 before and during
\* validation, 1 resolving assets, 2 probing the audio, 3 fitting the
\* subtitles and building the program, 4 encoding, 5 answered.
StageOf(p) ==
  CASE p = "new" -> 0
    [] p \in {"dl_bg", "dl_end"} -> 1
    [] p = "probe" -> 2
    [] p = "write_ass" -> 3
    [] p = "encoding" -> 4
    [] OTHER -> 5

\* Every step leaves a job in its stage, moves it to the next one, or ends it.
StagesInOrder ==
  \A r \in Reqs : StageOf(pc'[r]) \in {StageOf(pc[r]), StageOf(pc[r]) + 1, 5}

\* C24: the stages of a job follow one another in the order validating,
\* resolving assets, probing audio, fitting subtitles and building the
\* program, encoding, result, none skipped and none re-entered, and the
\* admission gate is taken in the step from the built program to encoding.
C24_StageOrderGateBeforeEncoding ==
  [][/\ StagesInOrder
     /\ (~renderBusy /\ renderBusy') =>
          \E r \in Reqs : pc[r] = "write_ass" /\ pc'[r] = "encoding"]_vars

\* C25: the video_ms of a success response is its audio_ms plus the tail of
\* 4000 ms, for every probed duration and however the three double
\* operations round.
C25_VideoIsAudioPlusTail ==
  jobStage = "responded" => debug.video_ms = debug.audio_ms + 4000

\* A response after a quotient, a sum and a product that were all rounded down.
C25_Witness ==
  /\ jobStage = "responded" /\ jobIn.roundOff = << 0 - 1, 0 - 1, 0 - 1 >>
  /\ jobIn.audioMs = 9000 /\ debug.video_ms = 13000

\* C26: at every frame time t with 0 <= t < videoSec the title and the footer
\* are drawn exactly when t < audioSec, the end card is overlaid exactly when
\* audioSec <= t < videoSec, and exactly one of the two holds.
C26_ExactlyOneGate ==
  (shown.t >= 0 /\ shown.t < jobIn.audioMs + 4000) =>
    /\ shown.title <=> shown.t < jobIn.audioMs
    /\ shown.footer <=> shown.t < jobIn.audioMs
    /\ shown.endCard <=> (jobIn.audioMs <= shown.t /\ shown.t < jobIn.audioMs + 4000)
    /\ shown.title # shown.endCard

\* The frame at the very end of the audio shows the end card and no title,
\* after doubles that were rounded down.
C26_Witness ==
  /\ shown.t = jobIn.audioMs /\ shown.endCard /\ ~shown.title
  /\ jobIn.roundOff = << 0 - 1, 0 - 1, 0 >>

\* The segments of a graph: what lies between its separators.
RECURSIVE SplitGraph(_, _)
SplitGraph(graph, cur) ==
  IF graph = << >> THEN << cur >>
  ELSE IF Head(graph) = ";" THEN << cur >> \o SplitGraph(Tail(graph), << >>)
  ELSE SplitGraph(Tail(graph), Append(cur, Head(graph)))

Segments == SplitGraph(filterComplex.graph, << >>)

GraphLabels == { "[0:v]", "[1:v]", "[2:v]", "[v0]", "[v1]", "[v2]", "[vout]" }

\* The position of the filter name in a segment: the first token that is no label.
NamePos(seg) ==
  IF \E i \in DOMAIN seg : seg[i] \notin GraphLabels
  THEN CHOOSE i \in DOMAIN seg : seg[i] \notin GraphLabels /\ \A j \in 1..(i - 1) : seg[j] \in GraphLabels
  ELSE 0

\* The files that the argument list gives as inputs, input 0 first.
InputFiles == SelectSeq([i \in DOMAIN ffmpegArgs |->
                           IF i > 1 /\ ffmpegArgs[i - 1] = "-i" THEN ffmpegArgs[i] ELSE ""],
                        LAMBDA a : a # "")

Mapped == { ffmpegArgs[i] : i \in { j \in DOMAIN ffmpegArgs : j > 1 /\ ffmpegArgs[j - 1] = "-map" } }

Positions(name) == { i \in DOMAIN filterComplex.graph : filterComplex.graph[i] = name }

\* C28: when payload.debug.disable_subtitles is the JSON value true the graph
\* has no subtitles filter and the success response carries
\* disable_subtitles: true; for every other value the graph has exactly one
\* subtitles filter, it reads the background input [0:v] and it comes before
\* the drawtext filters, and the response carries disable_subtitles: false.
C28_SubtitlesOnlyUnlessDisabled ==
  jobStage = "responded" =>
    IF jobIn.disable_subtitles = "true"
    THEN Positions("subtitles") = {} /\ debug.disable_subtitles
    ELSE /\ Cardinality(Positions("subtitles")) = 1
         /\ Segments[1] = << "[0:v]", "subtitles", "[v0]" >>
         /\ \A i \in Positions("subtitles"), j \in Positions("drawtext") : i < j
         /\ ~debug.disable_subtitles

\* A job whose disable_subtitles is the string "true" has been answered, with
\* its subtitles burnt.
C28_Witness ==
  /\ jobStage = "responded" /\ jobIn.disable_subtitles = "\"true\""
  /\ Positions("subtitles") # {} /\ ~debug.disable_subtitles

\* What the drawtext filter reads from an escaped text: a backslash and the
\* character after it stand for that character (n for a line feed); a colon,
\* quote, percent or line break without a backslash before it, or a lone
\* backslash, is unescaped.
RECURSIVE Unescaped(_)
Unescaped(str) ==
  IF str = << >> THEN [ok |-> TRUE, text |-> << >>]
  ELSE IF Head(str) = "\\"
  THEN IF Len(str) >= 2 /\ str[2] \in {"\\", ":", "'", "%", "n"}
       THEN LET rest == Unescaped(SubSeq(str, 3, Len(str)))
            IN [ok |-> rest.ok,
                text |-> << IF str[2] = "n" THEN "LF" ELSE str[2] >> \o rest.text]
       ELSE [ok |-> FALSE, text |-> << >>]
  ELSE IF Head(str) \in {":", "'", "%", "LF", "CR"} THEN [ok |-> FALSE, text |-> << >>]
  ELSE LET rest == Unescaped(Tail(str))
       IN [ok |-> rest.ok, text |-> << Head(str) >> \o rest.text]

\* A text with each of its line breaks (CR LF, CR, LF) as one line feed.
RECURSIVE LineFeeds(_)
LineFeeds(str) ==
  IF str = << >> THEN << >>
  ELSE IF Len(str) >= 2 /\ str[1] = "CR" /\ str[2] = "LF"
  THEN << "LF" >> \o LineFeeds(SubSeq(str, 3, Len(str)))
  ELSE << IF Head(str) = "CR" THEN "LF" ELSE Head(str) >> \o LineFeeds(Tail(str))

\* C29: in the escaped title and the escaped footer every backslash, colon,
\* quote, percent and line break of the text stands as its escape sequence
\* and none stands unescaped, and the backslashes that the escapes of the
\* other characters bring are not escaped again: read back, the escaped text
\* is the text.  The same holds of the function on the text as the payload
\* carries it, before validatePayload trims it.
C29_EscapesEverySpecial ==
  jobStage \in {"built", "encoding", "responded"} =>
    /\ Unescaped(escapeDrawtextText(jobIn.title)).ok
    /\ Unescaped(escapeDrawtextText(jobIn.title)).text = LineFeeds(jobIn.title)
    /\ Unescaped(filterComplex.title).ok
    /\ Unescaped(filterComplex.title).text = LineFeeds(trim(jobIn.title))
    /\ Unescaped(filterComplex.footer).ok
    /\ Unescaped(filterComplex.footer).text = LineFeeds(trim(jobIn.footer))

\* A title with a backslash, a line feed and a colon has been escaped.
C29_Witness ==
  /\ jobStage = "built" /\ jobIn.title = << "\\", "LF", ":" >>
  /\ filterComplex.title = << "\\", "\\", "\\", "n", "\\", ":" >>

\* C30: the stored extension is .png, .jpg or .webp when the response's
\* content type names png, jpeg or jpg, or webp, whatever the URL path ends
\* in; otherwise it is the extension of the URL path, and .bin when the path
\* has none.
C30_ExtensionFromContentTypeFirst ==
  jobStage \notin {"idle", "start"} =>
    storedExt =
      IF jobIn.contentType \in {Header.png, Header.pngUpper, Header.pngCharset} THEN ".png"
      ELSE IF jobIn.contentType \in {Header.jpeg, Header.jpg} THEN ".jpg"
      ELSE IF jobIn.contentType = Header.webp THEN ".webp"
      ELSE IF jobIn.uext # "" THEN jobIn.uext
      ELSE ".bin"

\* A response that says IMAGE/PNG for a URL that ends in .jpg is stored as .png.
C30_Witness ==
  /\ jobStage = "stored" /\ jobIn.contentType = Header.pngUpper /\ jobIn.uext = ".jpg"
  /\ storedExt = ".png"

\* The fit takes its tolerance branch: the clamped timeline ends no more than
\* 250 ms away from the audio duration.
ToleranceBranch == ClampedLines # << >> /\ ~ScalingBranch

\* Line i of the current lines is line i of the clamped lines, but for the
\* end of the last line.
SameButLastEnd ==
  /\ Len(fitLines) = Len(ClampedLines)
  /\ \A i \in DOMAIN fitLines :
       /\ fitLines[i].text = ClampedLines[i].text
       /\ fitLines[i].start_ms = ClampedLines[i].start_ms
       /\ i < Len(fitLines) => fitLines[i].end_ms = ClampedLines[i].end_ms

\* C32: when the clamped timeline ends within 250 ms of the audio duration,
\* the fit and the steps after it leave the number of lines, every text, every
\* start and every end but the last line's as the clamp left them, and the
\* fit sets the last end to the audio duration.
C32_ToleranceOnlyLastEnd ==
  (fitStage \in {"fitted", "reclamped", "pinned"} /\ ToleranceBranch) =>
    /\ SameButLastEnd
    /\ fitStage \in {"fitted", "pinned"} => fitLines[Len(fitLines)].end_ms = subsTargetMs

\* The fit has moved the last end of a timeline of two lines that ended
\* within the tolerance.
C32_Witness ==
  /\ fitStage = "fitted" /\ ToleranceBranch /\ Len(fitLines) = 2
  /\ fitLines[2].end_ms # ClampedLines[2].end_ms

\* C33: the lines that normalizeSubtitleLines returns are in the order of
\* their starts, no time is negative, each line starts no earlier than the
\* line before it ends, and each line ends at least 150 ms after it starts.
C33_NormalizedLines ==
  fitStage = "normalized" =>
    \A i \in DOMAIN fitLines :
      /\ fitLines[i].start_ms >= 0
      /\ fitLines[i].end_ms >= fitLines[i].start_ms + 150
      /\ i > 1 => /\ fitLines[i].start_ms >= fitLines[i - 1].end_ms
                  /\ fitLines[i].start_ms >= fitLines[i - 1].start_ms

\* Two lines have been normalized: the second came first in the input, its
\* end preceded its start, and it overlapped the other.
C33_Witness ==
  /\ fitStage = "normalized" /\ Len(fitLines) = 2
  /\ rawLines = << RawLine(Def(2401), Def(0 - 200), "a"), RawLine(Def(0), Def(10000), "b") >>
  /\ fitLines = << SubLine(0, 5000, "b"), SubLine(5000, 5150, "a") >>

\* The positions in rawLines of the lines that the filter keeps.
ValidPositions == { i \in DOMAIN rawLines : IsValidLine(rawLines[i]) }

\* The start by which the lines are sorted: whole milliseconds, not negative.
SortKey(i) == MathMax(0, rawLines[i].start_ms[1] \div 2)

\* The number of valid lines that come before line i in the stable order of
\* the starts.
Before(i) ==
  Cardinality({ j \in ValidPositions :
                  SortKey(j) < SortKey(i) \/ (SortKey(j) = SortKey(i) /\ j < i) })

C35_OkOnlyAfterCleanExit ==
  [][\A r \in Reqs :
       /\ (resp[r].status # 200 /\ resp'[r].status = 200) =>
            /\ pc[r] = "encoding"
            /\ child[r] = "running" /\ child'[r] = "closed"
            /\ kills[r] = 0 /\ ~killed[r]
            /\ softTimer[r] = "pending" /\ hardTimer[r] = "pending"
            /\ outcome[r].state = "pending" /\ outcome'[r].state = "resolved"
       /\ resp'[r].status = 200 =>
            /\ child'[r] = "closed" /\ outcome'[r].state = "resolved"
            /\ resp'[r].ok]_vars

\* A request has been answered 200.
C35_Witness ==
  \E r \in Reqs : resp[r].status = 200 /\ resp[r].ok /\ child[r] = "closed"

\* What the delivery of one stderr line does to the run of request r.
LineEffect(r, line) ==
  /\ errLines'[r] = errLines[r] + (IF line.kv THEN 0 ELSE 1)
  /\ IF line.kv /\ line.key = "progress"
     THEN /\ samples'[r] = Append(samples[r],
                                  [t_ms |-> elapsed[r], out_time_ms |-> last[r].out_time_ms,
                                   speed |-> last[r].speed, fps |-> last[r].fps,
                                   frame |-> last[r].frame, progress |-> line.val])
          /\ last'[r] = [last[r] EXCEPT !.progress = line.val]
     ELSE /\ samples'[r] = samples[r]
          /\ last'[r] = IF line.kv /\ line.key \in {"out_time_ms", "out_time", "speed",
                                                     "fps", "frame"}
                        THEN [last[r] EXCEPT ![line.key] = line.val]
                        ELSE last[r]

\* C36: each stderr line that is delivered appends one sample when its key
\* is progress, with the out_time_ms, speed, fps and frame that the record
\* held before it and the line's value as progress; a line with another key
\* of the record sets that member and adds no sample; any other line leaves
\* record and samples as they are.
C36_SampleOnProgressOnly ==
  [][\A r \in Reqs :
       nlines'[r] # nlines[r] => \E line \in StderrLines : LineEffect(r, line)]_vars

\* A sample carries the out_time_ms that a line before its progress line set.
C36_Witness ==
  \E r \in Reqs : /\ Len(samples[r]) = 1 /\ nlines[r] = 2
                  /\ samples[r][1].out_time_ms = "1000000"
                  /\ samples[r][1].progress = "continue"

\* The events of a step that settle the run of request r.
SettlingEvents(r) ==
  (IF child[r] = "running" /\ child'[r] = "closed" THEN {"close"} ELSE {})
  \cup (IF child[r] = "running" /\ child'[r] = "failed" THEN {"error"} ELSE {})
  \cup (IF softTimer[r] = "pending" /\ softTimer'[r] = "fired" THEN {"soft"} ELSE {})
  \cup (IF hardTimer[r] = "pending" /\ hardTimer'[r] = "fired" THEN {"hard"} ELSE {})

\* C38: the run of a request is settled by one event, the first close, spawn
\* error or timer to occur, with the outcome of that event, and the request
\* is answered in that step; no later step changes the outcome or the
\* response.
C38_OneOutcome ==
  [][\A r \in Reqs :
       /\ outcome[r].state \in {"resolved", "rejected"} => outcome'[r] = outcome[r]
       /\ resp[r].status # 0 => resp'[r] = resp[r]
       /\ (outcome[r].state = "pending" /\ SettlingEvents(r) # {}) =>
            /\ Cardinality(SettlingEvents(r)) = 1
            /\ resp[r].status = 0 /\ resp'[r].status # 0
            /\ "close" \in SettlingEvents(r) =>
                 \/ outcome'[r].state = "resolved" /\ resp'[r].status = 200
                 \/ /\ outcome'[r].state = "rejected" /\ outcome'[r].code \in {"1", "null"}
                    /\ resp'[r].status = 500
            /\ "error" \in SettlingEvents(r) =>
                 outcome'[r].state = "rejected" /\ outcome'[r].code = "ENOENT"
                 /\ resp'[r].status = 500
            /\ "soft" \in SettlingEvents(r) =>
                 outcome'[r].state = "rejected" /\ outcome'[r].code = "ETIMEDOUT"
                 /\ resp'[r].status = 504
            /\ "hard" \in SettlingEvents(r) =>
                 outcome'[r].state = "rejected" /\ outcome'[r].code = "HARD_TIMEOUT"
                 /\ resp'[r].status = 504
       /\ (outcome[r].state = "pending" /\ outcome'[r].state # "pending") =>
            SettlingEvents(r) # {}]_vars

\* The child has closed after the soft timer had killed it and the request
\* had been answered 504.
C38_Witness ==
  \E r \in Reqs : /\ child[r] = "closed" /\ kills[r] = 1
                  /\ outcome[r].code = "ETIMEDOUT" /\ resp[r].status = 504

\* C39: when the child has closed or could not be spawned, neither timer is
\* pending and the heartbeat is stopped; from then on no SIGKILL is sent and
\* the outcome of the run does not change.
C39_ClosedCancelsTimers ==
  [][\A r \in Reqs :
       /\ child'[r] \in {"closed", "failed"} =>
            softTimer'[r] # "pending" /\ hardTimer'[r] # "pending" /\ hb'[r] # "pending"
       /\ child[r] \in {"closed", "failed"} =>
            /\ kills'[r] = kills[r]
            /\ outcome'[r] = outcome[r]
            /\ softTimer'[r] # "fired" \/ softTimer[r] = "fired"
            /\ hardTimer'[r] # "fired" \/ hardTimer[r] = "fired"]_vars

\* A child that no timer had killed has closed, both timers and the heartbeat
\* have been cancelled, and the handler has gone on.
C39_Witness ==
  \E r \in Reqs : /\ child[r] = "closed" /\ kills[r] = 0
                  /\ softTimer[r] = "cleared" /\ hardTimer[r] = "cleared"
                  /\ hb[r] = "cleared" /\ pc[r] = "done"

\* C34: what scaleSubtitleLinesToAudio returns for lines whose last end is
\* positive starts at 0, each line starts where the line before it ends, and
\* the last line ends at the audio duration.
C34_ScaledContiguousFromZero ==
  (fitStage = "scaled" /\ rawLines[Len(rawLines)].end_ms > 0) =>
    /\ fitLines[1].start_ms = 0
    /\ \A i \in 1..(Len(fitLines) - 1) : fitLines[i + 1].start_ms = fitLines[i].end_ms
    /\ fitLines[Len(fitLines)].end_ms = subsTargetMs

\* C37: the samples buffer never holds more than 60 entries; a push onto a
\* full buffer drops the oldest entry and keeps the others in their order; and
\* the result or error that settles a run carries the 20 most recent samples
\* (all of them when there are fewer) in the order of their arrival; the
\* error of a failed spawn carries no samples.
C37_BoundedSamples ==
  [][\A r \in Reqs :
       /\ Len(samples'[r]) <= SamplesCap
       /\ samples'[r] # samples[r] =>
            LET kept == IF Len(samples[r]) < SamplesCap THEN samples[r]
                        ELSE [i \in 1..(SamplesCap - 1) |-> samples[r][i + 1]]
            IN /\ Len(samples'[r]) = Len(kept) + 1
               /\ \A i \in 1..Len(kept) : samples'[r][i] = kept[i]
       /\ (outcome[r].state = "pending" /\ outcome'[r].state \in {"resolved", "rejected"}) =>
            \/ /\ outcome'[r].ffmpeg_samples = Undefined
               /\ resp'[r].ffmpeg_samples = Undefined
            \/ /\ outcome'[r].ffmpeg_samples # Undefined
               /\ LET exposed == outcome'[r].ffmpeg_samples[1]
                      n == Len(exposed)
                  IN /\ n <= RecentCount
                     /\ n = MathMin(RecentCount, Len(samples[r]))
                     /\ \A i \in 1..n : exposed[i] = samples[r][Len(samples[r]) - n + i]
                     /\ resp'[r].ffmpeg_samples = << exposed >>]_vars

\* A run that printed more than 60 progress blocks has settled: the buffer is
\* full and the result or error carries 20 samples, the newest being the newest
\* of the buffer.
C37_Witness ==
  \E r \in Reqs :
    /\ nlines[r] > 2 * SamplesCap
    /\ Len(samples[r]) = SamplesCap
    /\ outcome[r].state \in {"resolved", "rejected"}
    /\ Len(outcome[r].ffmpeg_samples[1]) = RecentCount
    /\ outcome[r].ffmpeg_samples[1][RecentCount].t_ms >= SamplesCap * BlockGapMs

\* C31: a request whose hard timer fired and whose ffmpeg was spawned and has
\* closed was answered 504, and ffmpeg was sent a SIGKILL.
C31_HardTimerKillsAndAnswers504 ==
  \A r \in Reqs :
    (hardTimer[r] = "fired" /\ child[r] = "closed") =>
      (kills[r] > 0 /\ resp[r].status = 504)

====
